---- MODULE Spec2Model ----
(***************************************************************************)
(* Model of the slice viewer of mrui (frontend/src/components/viewer/      *)
(* VolumeViewer.tsx and api/client.ts): the slice cache and prefetch       *)
(* engine, the context token and the navigation handlers.                  *)
(*                                                                         *)
(* One step of the model is one task of the browser's event loop: a user   *)
(* gesture, an animation-frame callback or the arrival of one network      *)
(* response, together with the React commit it causes (effects in          *)
(* declaration order) and the microtasks it queues (settlement of aborted  *)
(* fetches, resumption of awaiting requestSliceSet calls).                 *)
(***************************************************************************)
EXTENDS Integers, Sequences, FiniteSets, TLC

\* ------------------------------------------------------------------ bounds
MaxGestures == 2   \* user gestures per behaviour of Spec

\* ------------------------------------------------------- program constants
SLICE_CACHE_SIZE == 7

Orientations == {"yx", "zx", "zy"}

\* resultShape of Spec: one batch dimension, then (z, y, x)
SmallShape == <<2, 3, 2, 1>>
\* resultShape of SpecTiny: two slices along z, one along y and x
TinyShape == <<2, 2, 1, 1>>
\* resultShape of SpecOdo: batchDims [2, 3] and four slices along z
OdoShape == <<2, 3, 4, 1, 1>>
\* resultShape of SpecLru: no batch axis to move along, eight slices along z
DeepShape == <<1, 8, 1, 1>>

\* ------------------------------------------------------------ small helpers
Max2(a, b) == IF a >= b THEN a ELSE b
Min2(a, b) == IF a <= b THEN a ELSE b
Clamp(v, hi) == Max2(0, Min2(v, hi))

RECURSIVE FoldSeq(_, _, _)
\* left fold of Op over the sequence s, starting from acc
FoldSeq(Op(_, _), acc, s) ==
  IF s = <<>> THEN acc ELSE FoldSeq(Op, Op(acc, Head(s)), Tail(s))

SeqWithout(s, x) == SelectSeq(s, LAMBDA e : e # x)
InSeq(s, x) == \E k \in 1..Len(s) : s[k] = x

\* batchDims = resultShape.slice(0, -3); spatialDims = resultShape.slice(-3)
batchDimsOf(shape) == SubSeq(shape, 1, Len(shape) - 3)
zSizeOf(shape) == shape[Len(shape) - 2]
ySizeOf(shape) == shape[Len(shape) - 1]
xSizeOf(shape) == shape[Len(shape)]

\* getScrollAxis(orient).max
getScrollMax(shape, orient) ==
  CASE orient = "zy" -> xSizeOf(shape)
    [] orient = "zx" -> ySizeOf(shape)
    [] orient = "yx" -> zSizeOf(shape)
    [] OTHER -> zSizeOf(shape)

\* contextKey: `${jobId}|${orientation}|${batchIndices.join(",")}` (one job)
contextKey(o, b) == [o |-> o, b |-> b]
NoContext == [o |-> "none", b |-> <<>>]

\* makeSliceKey(index): the context key followed by "|" and the index
makeSliceKey(o, b, index) == [o |-> o, b |-> b, i |-> index]
NoSlice == [o |-> "none", b |-> <<>>, i |-> -1]
KeyContext(key) == [o |-> key.o, b |-> key.b]

NoError == "none"

\* ------------------------------------------------------------- slice data
\* The server's pixel data of a slice: three values, not in ascending order,
\* that differ from slice to slice and from context to context.
OriNum(o) == CASE o = "yx" -> 0 [] o = "zx" -> 1 [] o = "zy" -> 2 [] OTHER -> 3
RECURSIVE SumSeq(_)
SumSeq(s) == IF s = <<>> THEN 0 ELSE Head(s) + SumSeq(Tail(s))
SliceData(key) ==
  LET base == key.i + 10 * SumSeq(key.b) + 100 * OriNum(key.o)
  IN <<base + 1, base, base + 2>>

RECURSIVE InsertSorted(_, _)
InsertSorted(s, x) ==
  IF s = <<>> THEN <<x>>
  ELSE IF x <= Head(s) THEN <<x>> \o s
  ELSE <<Head(s)>> \o InsertSorted(Tail(s), x)
\* Array.from(data).sort((a, b) => a - b)
SortAscending(s) == FoldSeq(InsertSorted, <<>>, s)

\* computePercentiles(data, p1, p2), p1 and p2 in percent
computePercentiles(data, p1, p2) ==
  LET sorted == SortAscending(data)
      i1 == ((Len(sorted) - 1) * p1) \div 100
      i2 == ((Len(sorted) - 1) * p2) \div 100
  IN <<IF i1 + 1 \in DOMAIN sorted THEN sorted[i1 + 1] ELSE 0,
       IF i2 + 1 \in DOMAIN sorted THEN sorted[i2 + 1] ELSE 1>>

\* ------------------------------------------------------------ the LRU cache
\* The cache is a Map: its iteration order is the order of the sequence.
\* (a touch that finds the key and leaves the order alone)
touchLruNoMove(cache, key) == cache

\* touchLru(map, key): delete and re-insert a present key
touchLru(cache, key) ==
  IF InSeq(cache, key) THEN Append(SeqWithout(cache, key), key) ELSE cache

RECURSIVE evictOldest(_)
\* while (cache.size > SLICE_CACHE_SIZE) cache.delete(first key)
evictOldest(cache) ==
  IF Len(cache) > SLICE_CACHE_SIZE THEN evictOldest(Tail(cache)) ELSE cache

\* (an insertion that evicts nothing)
cacheSliceNoEvict(cache, key) == Append(SeqWithout(cache, key), key)

\* cacheSlice(entry)
cacheSlice(cache, key) == evictOldest(Append(SeqWithout(cache, key), key))

\* history of touches (insertions and hits), most recent last; never evicted
RecordTouch(lru, key) == Append(SeqWithout(lru, key), key)

\* ------------------------------------------------- promises and results
NullRes == [kind |-> "null", key |-> NoSlice, msg |-> NoError]
EntryRes(key) == [kind |-> "entry", key |-> key, msg |-> NoError]
ErrRes(msg) == [kind |-> "error", key |-> NoSlice, msg |-> msg]

\* The outcome of fetchSlice for an HTTP status; an aborted fetch rejects
\* with an error named AbortError.
AbortOutcome == [name |-> "AbortError", message |-> "aborted"]
OkOutcome == [name |-> "ok", message |-> NoError]
\* (a fetchSlice that reports every non-OK status alike)
fetchSliceGeneric(status) ==
  IF status >= 200 /\ status <= 299 THEN OkOutcome
  ELSE [name |-> "Error", message |-> "Failed to fetch slice"]

\* res.ok is true for the statuses 200..299
fetchSlice(status) ==
  IF status >= 200 /\ status <= 299 THEN OkOutcome
  ELSE IF status = 409 THEN [name |-> "Error", message |-> "Job not finished"]
  ELSE [name |-> "Error", message |-> "Failed to fetch slice"]

\* ----------------------------------------------------- the viewer machine
\* The operators below work on a record m of the viewer's refs and state:
\*   shape, cache, inflight, token, target, awc, displayed, isLoading, error,
\*   vmin, vmax            the component's refs and display state
\*   reqs                  network requests not yet settled, [id, key, token]
\*   waits                 requestSliceSet calls suspended at their target await
\*   immq, abortq          microtasks queued by the running task
\*   lru, lastAbortRes     history

FreshId(m) ==
  CHOOSE n \in 0..Cardinality(m.reqs) : \A r \in m.reqs : r.id # n

InflightHas(m, key) == \E k \in 1..Len(m.inflight) : m.inflight[k].key = key
InflightId(m, key) ==
  m.inflight[CHOOSE k \in 1..Len(m.inflight) : m.inflight[k].key = key].id

\* loadSlice(index, token) up to the promise it returns
loadSlice(m, o, b, index, token) ==
  LET key == makeSliceKey(o, b, index) IN
  IF index < 0 \/ index >= getScrollMax(m.shape, o)
    THEN [m |-> m, p |-> [kind |-> "value", res |-> NullRes, id |-> -1]]
  ELSE IF InSeq(m.cache, key)
    THEN [m |-> [m EXCEPT !.cache = touchLru(@, key), !.lru = RecordTouch(@, key)],
          p |-> [kind |-> "value", res |-> EntryRes(key), id |-> -1]]
  ELSE IF InflightHas(m, key)
    THEN [m |-> m, p |-> [kind |-> "pending", res |-> NullRes, id |-> InflightId(m, key)]]
  ELSE LET id == FreshId(m) IN
       [m |-> [m EXCEPT !.reqs = @ \cup {[id |-> id, key |-> key, token |-> token]},
                        !.inflight = Append(@, [key |-> key, id |-> id])],
        p |-> [kind |-> "pending", res |-> NullRes, id |-> id]]

\* (a continuation that caches a response whatever its token)
loadSliceSettleAnyToken(m, r, outcome) ==
  LET res == IF outcome.name = "ok" THEN EntryRes(r.key)
             ELSE IF outcome.name = "AbortError" THEN NullRes
             ELSE ErrRes(outcome.message)
      m1 == IF res.kind = "entry"
              THEN [m EXCEPT !.cache = cacheSlice(@, r.key),
                             !.lru = RecordTouch(@, r.key)]
              ELSE m
  IN [m |-> [m1 EXCEPT !.inflight = SelectSeq(@, LAMBDA e : e.key # r.key),
                       !.reqs = @ \ {r}],
      res |-> res]

\* (a continuation that rethrows every error, AbortError included)
loadSliceSettleRethrow(m, r, outcome) ==
  LET res == IF outcome.name = "ok"
               THEN IF m.token # r.token THEN NullRes ELSE EntryRes(r.key)
             ELSE ErrRes(outcome.message)
      m1 == IF res.kind = "entry"
              THEN [m EXCEPT !.cache = cacheSlice(@, r.key),
                             !.lru = RecordTouch(@, r.key)]
              ELSE m
  IN [m |-> [m1 EXCEPT !.inflight = SelectSeq(@, LAMBDA e : e.key # r.key),
                       !.reqs = @ \ {r}],
      res |-> res]

\* (a continuation without the finally block)
loadSliceSettleNoDelete(m, r, outcome) ==
  LET res == IF outcome.name = "ok"
               THEN IF m.token # r.token THEN NullRes ELSE EntryRes(r.key)
             ELSE IF outcome.name = "AbortError" THEN NullRes
             ELSE ErrRes(outcome.message)
      m1 == IF res.kind = "entry"
              THEN [m EXCEPT !.cache = cacheSlice(@, r.key),
                             !.lru = RecordTouch(@, r.key)]
              ELSE m
  IN [m |-> [m1 EXCEPT !.reqs = @ \ {r}], res |-> res]

\* the continuation of loadSlice's async body once fetchSlice has settled
loadSliceSettle(m, r, outcome) ==
  LET res == IF outcome.name = "ok"
               THEN IF m.token # r.token THEN NullRes ELSE EntryRes(r.key)
             ELSE IF outcome.name = "AbortError" THEN NullRes
             ELSE ErrRes(outcome.message)
      m1 == IF res.kind = "entry"
              THEN [m EXCEPT !.cache = cacheSlice(@, r.key),
                             !.lru = RecordTouch(@, r.key)]
              ELSE m
  IN [m |-> [m1 EXCEPT !.inflight = SelectSeq(@, LAMBDA e : e.key # r.key),
                       !.reqs = @ \ {r}],
      res |-> res]

\* applyAutoWindowIfNeeded(entry), with the contextKey of the calling closure
\* setVmin(p1); setVmax(p99); autoWindowContextRef.current = contextKey
setWindow(m, ctx, p) == [m EXCEPT !.vmin = p[1], !.vmax = p[2], !.awc = ctx]

\* (an auto-window recomputed for every displayed slice)
applyAutoWindowAlways(m, ctx, key) ==
  setWindow(m, ctx, computePercentiles(SliceData(key), 1, 99))

applyAutoWindowIfNeeded(m, ctx, key) ==
  IF m.awc = ctx THEN m
  ELSE setWindow(m, ctx, computePercentiles(SliceData(key), 1, 99))

\* setDisplayedSlice(entry); setIsLoading(false); applyAutoWindowIfNeeded(entry)
showSlice(m, ctx, key) ==
  applyAutoWindowIfNeeded([m EXCEPT !.displayed = key, !.isLoading = FALSE], ctx, key)

\* prefetchOrder of requestSliceSet
prefetchOrder(shape, o, t) ==
  SelectSeq(<<t, t + 1, t - 1, t + 2, t - 2>>,
            LAMBDA idx : idx >= 0 /\ idx < getScrollMax(shape, o))

\* controller.abort() and inflight.delete(key) for every entry not desired
abortUndesired(m, desiredKeys) ==
  LET gone == SelectSeq(m.inflight, LAMBDA e : e.key \notin desiredKeys)
  IN [m EXCEPT !.abortq = @ \o [k \in 1..Len(gone) |-> gone[k].id],
               !.inflight = SelectSeq(@, LAMBDA e : e.key \in desiredKeys)]

\* the keys of the prefetch window of targetIndex
desiredKeysOf(shape, o, b, targetIndex) ==
  LET order == prefetchOrder(shape, o, targetIndex)
  IN {makeSliceKey(o, b, order[k]) : k \in 1..Len(order)}

\* (a call that leaves a cached target to the continuation of its await)
showCachedTargetLater(m, ctx, immediateKey) == m

\* cachedTarget = touchLru(cache, immediateKey); if (cachedTarget) show it
showCachedTarget(m, ctx, immediateKey) ==
  IF InSeq(m.cache, immediateKey)
    THEN showSlice([m EXCEPT !.cache = touchLru(@, immediateKey),
                             !.lru = RecordTouch(@, immediateKey)],
                   ctx, immediateKey)
    ELSE m

\* (the neighbor fetches of a target, started with the current token)
prefetchNeighborsOf(m, o, b, targetIndex) ==
  LET order == prefetchOrder(m.shape, o, targetIndex)
  IN FoldSeq(LAMBDA acc, idx : loadSlice(acc, o, b, idx, m.token).m,
             m, IF order = <<>> THEN <<>> ELSE Tail(order))

\* await loadSlice(targetIndex, token): the call is suspended on the promise
\* ld.p; a promise that is already resolved resumes it in this task's
\* microtasks
awaitTarget(ld, token, targetIndex, o, b) ==
  LET call == [id |-> ld.p.id, res |-> ld.p.res, token |-> token,
               target |-> targetIndex, o |-> o, b |-> b]
  IN IF ld.p.kind = "pending"
       THEN [ld.m EXCEPT !.waits = Append(@, call)]
       ELSE [ld.m EXCEPT !.immq = Append(@, call)]

\* (a requestSliceSet that starts the neighbor fetches before it awaits the target)
requestSliceSetEager(m, o, b, targetIndex) ==
  awaitTarget(
    loadSlice(
      prefetchNeighborsOf(
        showCachedTarget(
          abortUndesired([m EXCEPT !.target = targetIndex],
                         desiredKeysOf(m.shape, o, b, targetIndex)),
          contextKey(o, b), makeSliceKey(o, b, targetIndex)),
        o, b, targetIndex),
      o, b, targetIndex, m.token),
    m.token, targetIndex, o, b)

\* requestSliceSet(targetIndex) of the closure of (o, b), up to its first await
requestSliceSet(m, o, b, targetIndex) ==
  awaitTarget(
    loadSlice(
      showCachedTarget(
        abortUndesired([m EXCEPT !.target = targetIndex],
                       desiredKeysOf(m.shape, o, b, targetIndex)),
        contextKey(o, b), makeSliceKey(o, b, targetIndex)),
      o, b, targetIndex, m.token),
    m.token, targetIndex, o, b)

\* (a neighbor's rejection reported like the target's)
neighborsSettledThrows(m, r, res) ==
  IF res.kind = "error" /\ r.token = m.token
    THEN [m EXCEPT !.error = res.msg, !.isLoading = FALSE]
    ELSE m

\* await Promise.allSettled(neighbors...): the results are dropped
neighborsSettled(m, r, res) == m

\* neighbors = prefetchOrder.slice(1); neighbors.map((idx) => loadSlice(idx, token))
prefetchNeighbors(m, w) ==
  LET order == prefetchOrder(m.shape, w.o, w.target)
  IN FoldSeq(LAMBDA acc, idx : loadSlice(acc, w.o, w.b, idx, w.token).m,
             m, IF order = <<>> THEN <<>> ELSE Tail(order))

\* (the continuation without the token comparisons)
resumeSliceSetNoToken(m, w, res) ==
  IF res.kind = "error"
    THEN IF w.target = m.target
           THEN [m EXCEPT !.error = res.msg, !.isLoading = FALSE]
           ELSE m
  ELSE prefetchNeighbors(IF res.kind = "entry" /\ w.target = m.target
                           THEN showSlice(m, contextKey(w.o, w.b), res.key)
                           ELSE m,
                         w)

\* (the continuation without the target comparisons)
resumeSliceSetNoTarget(m, w, res) ==
  IF res.kind = "error"
    THEN IF w.token = m.token
           THEN [m EXCEPT !.error = res.msg, !.isLoading = FALSE]
           ELSE m
  ELSE prefetchNeighbors(IF res.kind = "entry" /\ w.token = m.token
                           THEN showSlice(m, contextKey(w.o, w.b), res.key)
                           ELSE m,
                         w)

\* requestSliceSet from the target await on: apply or report, then prefetch
resumeSliceSet(m, w, res) ==
  IF res.kind = "error"
    THEN IF w.token = m.token /\ w.target = m.target
           THEN [m EXCEPT !.error = res.msg, !.isLoading = FALSE]
           ELSE m
  ELSE prefetchNeighbors(IF res.kind = "entry" /\ w.target = m.target /\ w.token = m.token
                           THEN showSlice(m, contextKey(w.o, w.b), res.key)
                           ELSE m,
                         w)

WaitersOf(m, id) == SelectSeq(m.waits, LAMBDA w : w.id = id)

\* one request settles: loadSlice's continuation, then the awaiting calls
resumeWaiters(s, r, ws) ==
  neighborsSettled(
    FoldSeq(LAMBDA acc, w : resumeSliceSet(acc, w, s.res),
            [s.m EXCEPT !.waits = SelectSeq(@, LAMBDA w : w.id # r.id)], ws),
    r, s.res)

settleRequest(m, r, outcome) ==
  resumeWaiters(loadSliceSettle(m, r, outcome), r, WaitersOf(m, r.id))

ReqOf(m, id) == CHOOSE r \in m.reqs : r.id = id

\* the calls whose target promise was already resolved resume
resumeResolved(m) ==
  FoldSeq(LAMBDA acc, w : resumeSliceSet(acc, w, w.res),
          [m EXCEPT !.immq = <<>>], m.immq)

\* the continuation of one aborted fetch: the result it gives is recorded
noteSettled(acc, id, s) ==
  [m |-> s.m, out |-> Append(acc.out, [id |-> id, res |-> s.res])]

settleOneAborted(acc, id) ==
  noteSettled(acc, id, loadSliceSettle(acc.m, ReqOf(acc.m, id), AbortOutcome))

\* the continuations of the aborted fetches, in the order of the aborts
settleAborted(m) == FoldSeq(settleOneAborted, [m |-> m, out |-> <<>>], m.abortq)

\* the calls that awaited one aborted fetch resume with its result
resumeOneAborted(acc, e) ==
  FoldSeq(LAMBDA a2, w : resumeSliceSet(a2, w, e.res),
          [acc EXCEPT !.waits = SelectSeq(@, LAMBDA w : w.id # e.id)],
          WaitersOf(acc, e.id))

resumeAborted(b) ==
  [FoldSeq(resumeOneAborted, b.m, b.out)
     EXCEPT !.abortq = <<>>,
            !.lastAbortRes = @ \cup {b.out[k].res.kind : k \in 1..Len(b.out)}]

\* The microtasks of one task, in queue order: the calls whose target promise
\* was already resolved; the continuations of the aborted fetches (each
\* deletes its key from the in-flight table); the calls that awaited them.
drainMicrotasks(m) == resumeAborted(settleAborted(resumeResolved(m)))

\* clearTransientState(): cache.clear(), abort every in-flight entry, clear the table
clearTransientState(m) ==
  [m EXCEPT !.cache = <<>>, !.lru = <<>>,
            !.abortq = @ \o [k \in 1..Len(m.inflight) |-> m.inflight[k].id],
            !.inflight = <<>>]

\* what the context effect finds when it issues requestSliceSet(0)
SnapshotAtIssue(m, oldCtx, newCtx) ==
  [changed |-> oldCtx # newCtx,
   cacheSize |-> Len(m.cache),
   tableSize |-> Len(m.inflight),
   oldLive |-> Cardinality({r \in m.reqs : /\ KeyContext(r.key) = oldCtx
                                            /\ ~InSeq(m.abortq, r.id)})]

\* body of the context effect (lines 229-236), run for the closure of (o, b)
\* setError(null); setIsLoading(true); setDisplayedSlice(null);
\* autoWindowContextRef.current = null
resetDisplay(m) ==
  [m EXCEPT !.error = NoError, !.isLoading = TRUE,
            !.displayed = NoSlice, !.awc = NoContext]

recordIssue(m, oldCtx, newCtx) ==
  [m EXCEPT !.snap = SnapshotAtIssue(m, oldCtx, newCtx)]

contextEffectBody(m, oldCtx, o, b) ==
  requestSliceSet(
    recordIssue(resetDisplay(clearTransientState([m EXCEPT !.token = @ + 1])),
                oldCtx, contextKey(o, b)),
    o, b, 0)

\* the context effect re-run: cleanup of the previous run, then the body
contextEffect(m, oldCtx, o, b) ==
  contextEffectBody(clearTransientState(m), oldCtx, o, b)

\* (a slice effect that requests without clamping)
sliceEffectNoClamp(m, o, b, s) == [m |-> requestSliceSet(m, o, b, s), s |-> s]

\* the slice effect (lines 242-250): clamp, then request; s is the sliceIndex
\* of the render; the result carries the sliceIndex the effect asks for
sliceEffect(m, o, b, s) ==
  LET clampedIndex == Clamp(s, getScrollMax(m.shape, o) - 1)
  IN IF clampedIndex # s
       THEN [m |-> m, s |-> clampedIndex]
       ELSE [m |-> requestSliceSet(m, o, b, clampedIndex), s |-> s]

\* One React commit after a handler changed the navigation state from
\* (oOld, bOld, sOld) to (o, b, s); batchSet: setBatchIndices was called (the
\* array is a new object, so loadSlice and requestSliceSet are new closures).
\* Effects run in declaration order; sliceIndex updates made by the effects
\* are rendered in a second commit, after the microtasks of the first.
\* the slice effect, if its dependencies changed
sliceEffectIf(runs, m, o, b, s) ==
  IF runs THEN sliceEffect(m, o, b, s) ELSE [m |-> m, s |-> s]

\* (a commit without the orientation effect)
settleCommitNoReset(e, toZero) == [m |-> drainMicrotasks(e.m), s |-> e.s]

\* after the effects of a commit: the orientation effect's setSliceIndex(0)
\* wins over the slice effect's; then the microtasks run
settleCommit(e, toZero) ==
  [m |-> drainMicrotasks(e.m), s |-> IF toZero THEN 0 ELSE e.s]

\* the commit in which the handler's state updates are rendered
firstCommit(m, oOld, bOld, sOld, o, b, s, batchSet) ==
  LET oChanged == o # oOld
      ctxRuns == oChanged \/ batchSet
      sliceRuns == ctxRuns \/ s # sOld
  IN settleCommit(
       sliceEffectIf(sliceRuns,
                     IF ctxRuns THEN contextEffect(m, contextKey(oOld, bOld), o, b)
                                ELSE m,
                     o, b, s),
       oChanged)

\* the commit in which a sliceIndex set by the effects is rendered
secondCommit(c, o, b, s) ==
  settleCommit(sliceEffectIf(c.s # s, c.m, o, b, c.s), FALSE)

runEffects(m, oOld, bOld, sOld, o, b, s, batchSet) ==
  secondCommit(firstCommit(m, oOld, bOld, sOld, o, b, s, batchSet), o, b, s)

\* --------------------------------------------------------------- the state
VARIABLES
  resultShape,          \* prop: the volume's dimensions
  orientation, batchIndices, sliceIndex,   \* navigation state
  vmin, vmax,           \* display window
  displayedSlice, isLoading, error,
  pendingUpdate,        \* ref: a frame callback is scheduled
  frame,                \* the scheduled animation-frame callback and its closure
  cacheRef, inflightRef, contextTokenRef, targetIndexRef, autoWindowContextRef,
  requests,             \* network requests not yet settled
  calls,                \* requestSliceSet calls awaiting their target
  gesturesLeft,         \* user gestures the behaviour may still take
  touched,              \* history: keys of the context by last touch
  snap,                 \* history: what the last context effect found
  last,                 \* history: the last step
  getContext,           \* HTMLCanvasElement.prototype.getContext: 0 is the
                        \* browser's function, n the interception installed by
                        \* the n-th active overrideContextType call
  origGetContext,       \* the origGetContext of each active overrideContextType call
  wraps,                \* times wrapGLContext was applied to the WebGL2 context
  acquired,             \* what the last canvas.getContext call gave its caller
  delivered,            \* what the last overrideContextType call gave its caller
  texArgs,              \* arguments of the last gl.texImage2D call
  texPassed,            \* arguments it passed to the browser's texImage2D
  shimStep,             \* history: the last step of the shim
  fitArgs,              \* arguments of the last getFittedRect call
  fitRect,              \* the FittedRect it returned
  revision,             \* which revision of ReglCanvas is mounted
  canvasProps,          \* props of ReglCanvas: sliceData, width, height
  reglRef,              \* ref: the regl context, 0 is null
  sliceTextureRef,      \* ref: the slice texture object, 0 is null
  sliceTextureSpecRef,  \* ref: width, height and regl of the last allocation
  gpuTexture,           \* what the GPU holds for the texture of sliceTextureRef
  contexts,             \* regl contexts created so far
  textures,             \* slice texture objects created so far
  draws,                \* runs of the slice upload effect so far
  sliceReleases,        \* per slice texture object: its context, times released
  contextReleases,      \* per regl context: times its colormap texture, its
                        \* draw program and the context itself were released
  canvasSizeRef,        \* canvasSizeRef.current: the last stored pixel size
  backingStore,         \* canvas.width, canvas.height
  resizeStep,           \* the last resize notification and what it caused
  scrollLimits,         \* the odometer on its own: the sizes of its axes,
  scrollValues,         \* its values,
  tickLog,              \* and its last two ticks (values before, delta)
  canvasStep            \* history: the last step of the canvas

vars == <<resultShape, orientation, batchIndices, sliceIndex, vmin, vmax,
          displayedSlice, isLoading, error, pendingUpdate, frame, cacheRef,
          inflightRef, contextTokenRef, targetIndexRef, autoWindowContextRef,
          requests, calls, gesturesLeft, touched, snap, last,
          getContext, origGetContext, wraps, acquired, delivered, texArgs,
          texPassed, shimStep, fitArgs, fitRect,
          revision, canvasProps, reglRef, sliceTextureRef, sliceTextureSpecRef,
          gpuTexture, contexts, textures, draws, sliceReleases,
          contextReleases, canvasSizeRef, backingStore, resizeStep,
          scrollLimits, scrollValues, tickLog, canvasStep>>

viewerVars == <<resultShape, orientation, batchIndices, sliceIndex, vmin, vmax,
                displayedSlice, isLoading, error, pendingUpdate, frame, cacheRef,
                inflightRef, contextTokenRef, targetIndexRef,
                autoWindowContextRef, requests, calls, gesturesLeft, touched,
                snap, last>>
shimVars == <<getContext, origGetContext, wraps, acquired, delivered, texArgs,
              texPassed, shimStep>>

fitVars == <<fitArgs, fitRect>>
\* what an action of one component leaves alone
canvasVars == <<revision, canvasProps, reglRef, sliceTextureRef,
                sliceTextureSpecRef, gpuTexture, contexts, textures, draws,
                sliceReleases, contextReleases, canvasSizeRef, backingStore,
                resizeStep, canvasStep>>
tickVars == <<scrollLimits, scrollValues, tickLog>>
nonViewerVars == <<shimVars, fitVars, canvasVars, tickVars>>
nonShimVars == <<viewerVars, fitVars, canvasVars, tickVars>>
nonFitVars == <<viewerVars, shimVars, canvasVars, tickVars>>
nonCanvasVars == <<viewerVars, shimVars, fitVars, tickVars>>
nonTickVars == <<viewerVars, shimVars, fitVars, canvasVars>>

TicksIdle == scrollLimits = <<>> /\ scrollValues = <<>> /\ tickLog = <<>>

NoOutcome == [kind |-> "none", value |-> "none"]
NoShimStep == [kind |-> "none", fn |-> 0, created |-> FALSE, outcome |-> NoOutcome]
\* the module is loaded and overrideContextType has not been called
ShimLoaded ==
  /\ getContext = 0
  /\ origGetContext = <<>>
  /\ wraps = 0
  /\ acquired = "none"
  /\ delivered = NoOutcome
  /\ texArgs = <<>>
  /\ texPassed = <<>>
  /\ shimStep = NoShimStep

\* getFittedRect has not been called
FitIdle == fitArgs = <<>> /\ fitRect = <<>>

\* useRef({ width: 0, height: 0 })
NoSize == [width |-> 0, height |-> 0]

NoResize == [cw |-> 0, ch |-> 0, dpr |-> 0, realloc |-> FALSE, redraw |-> FALSE]

\* ReglCanvas before it is mounted: the refs hold their useRef initial values
NoProps == [width |-> 0, height |-> 0, len |-> 0, data |-> 0, sliceDtype |-> "none"]
NoGpuTexture == [width |-> 0, height |-> 0, data |-> 0, regl |-> 0]
NoCanvasStep == [kind |-> "none", upload |-> "none"]
CanvasUnmounted ==
  /\ canvasProps = NoProps
  /\ reglRef = 0
  /\ sliceTextureRef = 0
  /\ sliceTextureSpecRef = <<>>
  /\ gpuTexture = NoGpuTexture
  /\ contexts = 0
  /\ textures = 0
  /\ draws = 0
  /\ sliceReleases = <<>>
  /\ contextReleases = <<>>
  /\ canvasSizeRef = NoSize
  /\ backingStore = NoSize
  /\ resizeStep = NoResize
  /\ canvasStep = NoCanvasStep
\* the revision of the component that is in use
LatestRevision == 3
CanvasIdle == revision = LatestRevision /\ CanvasUnmounted

NoFrame == [kind |-> "none", axis |-> 0, delta |-> 0, o |-> "none", b |-> <<>>, s |-> 0]
NoSnap == [changed |-> FALSE, cacheSize |-> 0, tableSize |-> 0, oldLive |-> 0]

Machine ==
  [shape |-> resultShape, cache |-> cacheRef, inflight |-> inflightRef,
   token |-> contextTokenRef, target |-> targetIndexRef,
   awc |-> autoWindowContextRef, displayed |-> displayedSlice,
   isLoading |-> isLoading, error |-> error, vmin |-> vmin, vmax |-> vmax,
   reqs |-> requests, waits |-> calls, immq |-> <<>>, abortq |-> <<>>,
   lru |-> touched, snap |-> snap, lastAbortRes |-> {}]

Commit(m) ==
  /\ cacheRef' = m.cache
  /\ inflightRef' = m.inflight
  /\ contextTokenRef' = m.token
  /\ targetIndexRef' = m.target
  /\ autoWindowContextRef' = m.awc
  /\ displayedSlice' = m.displayed
  /\ isLoading' = m.isLoading
  /\ error' = m.error
  /\ vmin' = m.vmin
  /\ vmax' = m.vmax
  /\ requests' = m.reqs
  /\ calls' = m.waits
  /\ touched' = m.lru
  /\ snap' = m.snap

\* What a step did. For the arrival of a response: the request had captured
\* a token that is no longer current (stale); it failed; some call awaited it
\* as its target (awaited); some such call had captured the current token
\* (tokenCurrent), and the current target too (current); the request was for
\* a slice of the current context (ofContext). For every step: the results
\* that the fetches it aborted gave to loadSlice's callers.
\* For a navigation step (nav): the axis the handler acted on (0: none, the
\* odometer or the orientation), the sign of its wheel delta (0: no wheel),
\* and the batch indices and slice index it computed from. For a response:
\* its HTTP status.
NoNav == [axis |-> -1, delta |-> 0, b |-> <<>>, s |-> -1]

Quiet(kind) ==
  [kind |-> kind, stale |-> FALSE, failed |-> FALSE, awaited |-> FALSE,
   tokenCurrent |-> FALSE, current |-> FALSE, ofContext |-> FALSE,
   abortRes |-> {}, nav |-> NoNav, status |-> 0]

Step(kind, req, status, m) ==
  LET ws == WaitersOf(Machine, req.id) IN
  [kind |-> kind,
   stale |-> req.token # contextTokenRef,
   failed |-> status # 200,
   awaited |-> ws # <<>>,
   tokenCurrent |-> \E k \in 1..Len(ws) : ws[k].token = contextTokenRef,
   current |-> \E k \in 1..Len(ws) : /\ ws[k].token = contextTokenRef
                                     /\ ws[k].target = targetIndexRef,
   ofContext |-> KeyContext(req.key) = contextKey(orientation, batchIndices),
   abortRes |-> m.lastAbortRes, nav |-> NoNav, status |-> status]

\* the state after the handler's updates and their effects
CommitNavigation(kind, nav, o, b, r) ==
  /\ orientation' = o
  /\ batchIndices' = b
  /\ sliceIndex' = r.s
  /\ Commit(r.m)
  /\ last' = [Quiet(kind) EXCEPT !.abortRes = r.m.lastAbortRes, !.nav = nav]

\* the state after a response and the continuations it resumes
CommitResponse(r, status, m) ==
  /\ Commit(m)
  /\ last' = Step("response", r, status, m)

\* the component after its first commit: useState initial values, then the
\* effects of the mount (context effect, slice effect, orientation effect)
Unmounted(shape) ==
  [shape |-> shape, cache |-> <<>>, inflight |-> <<>>, token |-> 0,
   target |-> 0, awc |-> NoContext, displayed |-> NoSlice,
   isLoading |-> TRUE, error |-> NoError, vmin |-> 0, vmax |-> 1,
   reqs |-> {}, waits |-> <<>>, immq |-> <<>>, abortq |-> <<>>,
   lru |-> <<>>, snap |-> NoSnap, lastAbortRes |-> {}]

Mounted(shape) ==
  LET b0 == [k \in 1..Len(batchDimsOf(shape)) |-> 0]
  IN drainMicrotasks(
       sliceEffect(contextEffectBody(Unmounted(shape), NoContext, "yx", b0),
                   "yx", b0, 0).m)

ViewerInit(shape, budget, m) ==
  /\ resultShape = shape
  /\ orientation = "yx"
  /\ batchIndices = [k \in 1..Len(batchDimsOf(shape)) |-> 0]
  /\ sliceIndex = 0
  /\ pendingUpdate = FALSE
  /\ frame = NoFrame
  /\ gesturesLeft = budget
  /\ cacheRef = m.cache
  /\ inflightRef = m.inflight
  /\ contextTokenRef = m.token
  /\ targetIndexRef = m.target
  /\ autoWindowContextRef = m.awc
  /\ displayedSlice = m.displayed
  /\ isLoading = m.isLoading
  /\ error = m.error
  /\ vmin = m.vmin
  /\ vmax = m.vmax
  /\ requests = m.reqs
  /\ calls = m.waits
  /\ touched = m.lru
  /\ snap = m.snap
  /\ last = Quiet("mount")

InitFrom(shape, budget, m) ==
  /\ ViewerInit(shape, budget, m)
  /\ ShimLoaded
  /\ FitIdle
  /\ CanvasIdle
  /\ TicksIdle

InitWith(shape, budget) == InitFrom(shape, budget, Mounted(shape))

Init == InitWith(SmallShape, MaxGestures)

\* ------------------------------------------------------------- the actions
batchDims == batchDimsOf(resultShape)
scrollMax == getScrollMax(resultShape, orientation)
\* [...batchDims, scrollInfo.max] for the closure's orientation
scrollMaxes(o) == Append(batchDims, getScrollMax(resultShape, o))

\* The controls are rendered only when the viewer neither loads nor shows an
\* error (the early returns of lines 339-361); the canvas needs a slice too.
ControlsShown == ~isLoading /\ error = NoError
CanvasShown == ControlsShown /\ displayedSlice # NoSlice
\* an AxisChip renders nothing when its axis has a single position
ChipShown(axis) == ControlsShown /\ scrollMaxes(orientation)[axis] > 1

NavOf(axis, delta, b, s) == [axis |-> axis, delta |-> delta, b |-> b, s |-> s]

\* a handler changed the navigation state: commit, run the effects
Navigate(kind, nav, o, b, s, batchSet) ==
  CommitNavigation(kind, nav, o, b,
    runEffects(Machine, orientation, batchIndices, sliceIndex, o, b, s, batchSet))

\* onOrientationChange = setOrientation (a click on another orientation)
SetOrientation(o) ==
  /\ ControlsShown
  /\ gesturesLeft > 0
  /\ o # orientation
  /\ gesturesLeft' = gesturesLeft - 1
  /\ Navigate("orientation", NavOf(0, 0, batchIndices, sliceIndex),
              o, batchIndices, sliceIndex, FALSE)
  /\ UNCHANGED <<resultShape, pendingUpdate, frame>>
  /\ UNCHANGED nonViewerVars

\* handleAxisValueChange(axisIndex, value); the chip passes a value in range
handleAxisValueChange(axisIndex, value) ==
  /\ ChipShown(axisIndex)
  /\ gesturesLeft > 0
  /\ gesturesLeft' = gesturesLeft - 1
  /\ LET clamped == Clamp(value, scrollMaxes(orientation)[axisIndex] - 1)
     IN IF axisIndex <= Len(batchDims)
          THEN Navigate("edit", NavOf(axisIndex, 0, batchIndices, sliceIndex),
                        orientation,
                        [batchIndices EXCEPT ![axisIndex] = clamped], sliceIndex, TRUE)
          ELSE Navigate("edit", NavOf(axisIndex, 0, batchIndices, sliceIndex),
                        orientation, batchIndices, clamped, FALSE)
  /\ UNCHANGED <<resultShape, pendingUpdate, frame>>
  /\ UNCHANGED nonViewerVars

\* (a wheel handler without the early return)
acceptsAlways(pending) == TRUE

\* if (pendingUpdate.current) return;  -- a wheel handler goes on only when
\* no frame callback is pending
acceptsGesture(pending) == ~pending

\* handleAxisScroll / handleOdometerScroll while no frame is pending: the
\* callback is scheduled with the closure of the current render
ScheduleFrame(kind, axisIndex, delta) ==
  /\ gesturesLeft > 0
  /\ acceptsGesture(pendingUpdate)
  /\ gesturesLeft' = gesturesLeft - 1
  /\ pendingUpdate' = TRUE
  /\ frame' = [kind |-> kind, axis |-> axisIndex, delta |-> delta,
               o |-> orientation, b |-> batchIndices, s |-> sliceIndex]
  /\ last' = Quiet("wheel")
  /\ UNCHANGED <<resultShape, orientation, batchIndices, sliceIndex, vmin, vmax,
                 displayedSlice, isLoading, error, cacheRef, inflightRef,
                 contextTokenRef, targetIndexRef, autoWindowContextRef,
                 requests, calls, touched, snap>>
  /\ UNCHANGED nonViewerVars

handleAxisScroll(axisIndex, delta) ==
  /\ ChipShown(axisIndex)
  /\ ScheduleFrame("axis", axisIndex, delta)

handleOdometerScroll(delta) ==
  /\ CanvasShown
  /\ ScheduleFrame("odometer", 0, delta)

\* a wheel gesture while a frame callback is pending: if (pendingUpdate.current) return
DropGesture ==
  /\ ControlsShown
  /\ gesturesLeft > 0
  /\ ~acceptsGesture(pendingUpdate)
  /\ gesturesLeft' = gesturesLeft - 1
  /\ last' = Quiet("dropped")
  /\ UNCHANGED <<resultShape, orientation, batchIndices, sliceIndex, vmin, vmax,
                 displayedSlice, isLoading, error, pendingUpdate, frame, cacheRef,
                 inflightRef, contextTokenRef, targetIndexRef,
                 autoWindowContextRef, requests, calls, touched, snap>>
  /\ UNCHANGED nonViewerVars

\* (a tick that wraps the last axis and carries nothing)
odometerNoCarry(values, maxes, i, carry) ==
  [values EXCEPT ![i] = (values[i] + carry) % maxes[i]]

RECURSIVE odometerCarry(_, _, _, _)
\* the loop of lines 271-282 from axis i down, with the carry that enters it
odometerCarry(values, maxes, i, carry) ==
  IF i < 1 \/ carry = 0 THEN values
  ELSE LET v == values[i] + carry IN
       IF v >= maxes[i] THEN odometerCarry([values EXCEPT ![i] = 0], maxes, i - 1, 1)
       ELSE IF v < 0
         THEN odometerCarry([values EXCEPT ![i] = maxes[i] - 1], maxes, i - 1, -1)
       ELSE [values EXCEPT ![i] = v]

\* (a tick that stops at the ends instead of wrapping)
odometerTickClamped(values, maxes, delta) ==
  LET n == Len(maxes)
      v == values[n] + (IF delta > 0 THEN 1 ELSE -1)
  IN [values EXCEPT ![n] = Max2(0, Min2(v, maxes[n] - 1))]

\* newValues of the frame callback for the wheel direction delta
odometerTick(values, maxes, delta) ==
  odometerCarry(values, maxes, Len(maxes), IF delta > 0 THEN 1 ELSE -1)

\* the frame callback of handleOdometerScroll, on the values of its closure
odometerFrame(f) ==
  LET maxes == scrollMaxes(f.o)
      newValues == odometerTick(Append(f.b, f.s), maxes, f.delta)
      nextBatch == SubSeq(newValues, 1, Len(batchDims))
      nextSlice == newValues[Len(newValues)]
      batchChanged == \E k \in 1..Len(nextBatch) : nextBatch[k] # f.b[k]
  IN [b |-> IF batchChanged THEN nextBatch ELSE batchIndices,
      s |-> nextSlice, batchSet |-> batchChanged]

\* the frame callback of handleAxisScroll, on the values of its closure
axisFrame(f) ==
  LET maxes == scrollMaxes(f.o)
      step == IF f.delta > 0 THEN 1 ELSE -1
  IN IF f.axis <= Len(batchDims)
       THEN [b |-> [f.b EXCEPT ![f.axis] = Clamp(f.b[f.axis] + step, maxes[f.axis] - 1)],
             s |-> sliceIndex, batchSet |-> TRUE]
       ELSE [b |-> batchIndices,
             s |-> Clamp(sliceIndex + step, getScrollMax(resultShape, f.o) - 1),
             batchSet |-> FALSE]

\* the state updates of a frame callback are rendered
FrameUpdate(n, nav) == Navigate("frame", nav, orientation, n.b, n.s, n.batchSet)

\* what the frame callback of closure f reads: the odometer and a batch-axis
\* scroll read the batchIndices of the closure, the odometer its sliceIndex
\* too; a scroll of the slice axis reads the current sliceIndex
frameNav(f) ==
  IF f.kind = "odometer" THEN NavOf(0, f.delta, f.b, f.s)
  ELSE IF f.axis <= Len(batchDims) THEN NavOf(f.axis, f.delta, f.b, sliceIndex)
  ELSE NavOf(f.axis, f.delta, batchIndices, sliceIndex)

\* requestAnimationFrame fires the scheduled callback
FrameFires ==
  /\ frame # NoFrame
  /\ pendingUpdate' = FALSE
  /\ frame' = NoFrame
  /\ FrameUpdate(IF frame.kind = "odometer" THEN odometerFrame(frame)
                                               ELSE axisFrame(frame),
                 frameNav(frame))
  /\ UNCHANGED <<resultShape, gesturesLeft>>
  /\ UNCHANGED nonViewerVars

Statuses == {200, 409, 500}

\* the response of one pending request arrives with an HTTP status
Respond(r, status) ==
  /\ r \in requests
  /\ CommitResponse(r, status,
                    drainMicrotasks(settleRequest(Machine, r, fetchSlice(status))))
  /\ UNCHANGED <<resultShape, orientation, batchIndices, sliceIndex,
                 pendingUpdate, frame, gesturesLeft>>
  /\ UNCHANGED nonViewerVars

Next ==
  \/ \E o \in Orientations : SetOrientation(o)
  \/ \E a \in 1..(Len(batchDims) + 1) :
       \E v \in 0..(scrollMaxes(orientation)[a] - 1) : handleAxisValueChange(a, v)
  \/ \E a \in 1..(Len(batchDims) + 1), d \in {-1, 1} : handleAxisScroll(a, d)
  \/ \E d \in {-1, 1} : handleOdometerScroll(d)
  \/ DropGesture
  \/ FrameFires
  \/ \E r \in requests, st \in Statuses : Respond(r, st)

Spec == Init /\ [][Next]_vars

\* one more gesture than Spec
InitWide == InitWith(SmallShape, MaxGestures + 1)
SpecWide == InitWide /\ [][Next]_vars

\* the smallest volume with two contexts and two slices, three gestures
InitTiny == InitWith(TinyShape, MaxGestures + 1)
SpecTiny == InitTiny /\ [][Next]_vars

\* a volume with more slices along z than the cache holds; orientation
\* changes, edits of the slice index and successful responses
InitLru == InitWith(DeepShape, MaxGestures)
NextLru ==
  \/ \E o \in Orientations : SetOrientation(o)
  \/ \E v \in 0..(scrollMax - 1) : handleAxisValueChange(Len(batchDims) + 1, v)
  \/ \E r \in requests : Respond(r, 200)
SpecLru == InitLru /\ [][NextLru]_vars

\* a volume with two batch axes; direct edits, odometer ticks and successful
\* responses
InitOdo == InitWith(OdoShape, MaxGestures)
NextOdo ==
  \/ \E a \in 1..(Len(batchDims) + 1) :
       \E v \in 0..(scrollMaxes(orientation)[a] - 1) : handleAxisValueChange(a, v)
  \/ \E d \in {-1, 1} : handleOdometerScroll(d)
  \/ FrameFires
  \/ \E r \in requests : Respond(r, 200)
SpecOdo == InitOdo /\ [][NextOdo]_vars

\* ------------------------------------------------------------------ claims
currentContext == contextKey(orientation, batchIndices)
display == <<displayedSlice, isLoading, error, vmin, vmax, autoWindowContextRef>>

\* C1: a response that no requestSliceSet call holding the current token
\* awaits (every call that awaits it captured a token that is no longer
\* current), and every response for a slice of a context that is no longer
\* current, changes neither the displayed slice, the loading flag, the error
\* state nor the auto-window.
C1_StaleResponseDropped ==
  [][(last'.kind = "response" /\ (~last'.tokenCurrent \/ ~last'.ofContext))
       => UNCHANGED display]_vars

\* the response of a request of an abandoned context and an earlier token,
\* awaited by a call of an earlier token, arrived while a slice of the
\* current context was on display
C1_Witness ==
  /\ last.kind = "response" /\ last.stale /\ last.awaited /\ ~last.tokenCurrent
  /\ ~last.ofContext
  /\ displayedSlice # NoSlice /\ KeyContext(displayedSlice) = currentContext

\* C2: a target response is applied only for the call whose token and target
\* are current, and a newly displayed slice has the index of the current target.
C2_AppliedOnlyForCurrentTarget ==
  [][/\ (last'.kind = "response" /\ ~last'.current)
          => displayedSlice' = displayedSlice
     /\ (displayedSlice' # displayedSlice /\ displayedSlice' # NoSlice)
          => /\ displayedSlice'.i = targetIndexRef'
             /\ KeyContext(displayedSlice') = contextKey(orientation', batchIndices')
    ]_vars

\* a successful response of the current context arrived for a target that
\* had been superseded, while another slice was displayed
C2_Witness ==
  /\ last.kind = "response" /\ last.awaited /\ ~last.current
  /\ ~last.failed /\ ~last.stale
  /\ displayedSlice # NoSlice

\* C3: no two network requests for the same slice key are outstanding at once.
C3_OneRequestPerKey ==
  \A r1 \in requests : \A r2 \in requests : r1.key = r2.key => r1 = r2

\* C4: when the context effect of a context change issues requestSliceSet(0),
\* the cache and the in-flight table are empty and no request of the old
\* context is left that was not aborted.
C4_OldContextCancelledBeforeIssue ==
  snap.changed => snap.cacheSize = 0 /\ snap.tableSize = 0 /\ snap.oldLive = 0

\* C5: the cache never holds more than SLICE_CACHE_SIZE entries.
C5_CacheBounded == Len(cacheRef) <= SLICE_CACHE_SIZE

\* the cache is full and a key has been evicted
C5_Witness == Len(cacheRef) = SLICE_CACHE_SIZE /\ Len(touched) > SLICE_CACHE_SIZE

LastN(s, n) == IF Len(s) <= n THEN s ELSE SubSeq(s, Len(s) - n + 1, Len(s))

\* C6: the cache holds exactly the SLICE_CACHE_SIZE most recently touched
\* keys of the context, oldest touch first: eviction removes the key whose
\* last touch is oldest.
C6_EvictsLeastRecentlyTouched == cacheRef = LastN(touched, SLICE_CACHE_SIZE)

\* a key was evicted while slice 0, the first one inserted, was kept
C6_Witness ==
  /\ Len(touched) > SLICE_CACHE_SIZE
  /\ InSeq(cacheRef, makeSliceKey(orientation, batchIndices, 0))

\* C7: an aborted fetch resolves its loadSlice promise to null, and a step
\* that settles only aborted fetches never sets the error state.
C7_AbortResolvesNull ==
  [][/\ last'.abortRes \subseteq {"null"}
     /\ last'.kind # "response" => (error' = NoError \/ error' = error)]_vars

\* a step aborted at least one fetch
C7_Witness == last.abortRes # {}

\* C8: a failed response sets the error state exactly when the call of the
\* current token and target awaited it; otherwise it leaves the error, the
\* displayed slice and the loading flag as they were.
C8_ErrorOnlyForCurrentTarget ==
  [][(last'.kind = "response" /\ last'.failed)
       => IF last'.current
            THEN error' # NoError /\ ~isLoading'
            ELSE UNCHANGED <<error, displayedSlice, isLoading>>]_vars

\* the fetch of a superseded target failed
C8_Witness ==
  /\ last.kind = "response" /\ last.failed /\ last.awaited /\ ~last.current
  /\ error = NoError

\* C9: the failure of a fetch that no call awaits as its target (a neighbor
\* prefetch) changes neither the error state nor the displayed slice.
C9_NeighborFailureSwallowed ==
  [][(last'.kind = "response" /\ last'.failed /\ ~last'.awaited)
       => UNCHANGED <<error, displayedSlice>>]_vars

\* a neighbor prefetch of the current context failed while a slice was shown
C9_Witness ==
  /\ last.kind = "response" /\ last.failed /\ ~last.awaited /\ ~last.stale
  /\ displayedSlice # NoSlice

\* C10: once navigation has stopped and every response has arrived without
\* an error being reported, the displayed slice is the slice of the current
\* context at sliceIndex and the loading flag is false.
C10_TargetEventuallyDisplayed ==
  (requests = {} /\ frame = NoFrame /\ error = NoError)
    => /\ displayedSlice = makeSliceKey(orientation, batchIndices, sliceIndex)
       /\ ~isLoading

\* ---- mixed-radix arithmetic, most significant axis first
RECURSIVE ToNumber(_, _)
\* the number that the digits `values` denote with the radices `radices`
ToNumber(values, radices) ==
  IF values = <<>> THEN 0
  ELSE ToNumber(SubSeq(values, 1, Len(values) - 1),
                SubSeq(radices, 1, Len(radices) - 1)) * radices[Len(radices)]
       + values[Len(values)]

RECURSIVE FromNumber(_, _)
\* the digits of n with the radices `radices`
FromNumber(n, radices) ==
  IF radices = <<>> THEN <<>>
  ELSE Append(FromNumber(n \div radices[Len(radices)],
                         SubSeq(radices, 1, Len(radices) - 1)),
              n % radices[Len(radices)])

RECURSIVE ProductOf(_)
ProductOf(radices) ==
  IF radices = <<>> THEN 1 ELSE Head(radices) * ProductOf(Tail(radices))

\* the counter `values` plus d, modulo the number of positions
MixedRadixAdd(values, radices, d) ==
  FromNumber((ToNumber(values, radices) + d) % ProductOf(radices), radices)

\* C11: the frame callback of an odometer tick sets [...batchIndices,
\* sliceIndex] to the mixed-radix counter value that follows (delta > 0) or
\* precedes (delta < 0) the one it read, with the radices [...batchDims,
\* scrollMax] and wrap-around; batchIndices is set only if a batch digit
\* changes. In particular [0, 2], 3 is followed by [1, 0], 0.
C11_OdometerIsMixedRadixCounter ==
  /\ MixedRadixAdd(<<0, 2, 3>>, <<2, 3, 4>>, 1) = <<1, 0, 0>>
  /\ odometerFrame([kind |-> "odometer", axis |-> 0, delta |-> 1, o |-> "yx",
                    b |-> <<0, 2>>, s |-> 3])
       = [b |-> <<1, 0>>, s |-> 0, batchSet |-> TRUE]
  /\ (last.kind = "frame" /\ last.nav.axis = 0)
       => LET next == MixedRadixAdd(Append(last.nav.b, last.nav.s),
                                    scrollMaxes(orientation), last.nav.delta)
              nextBatch == SubSeq(next, 1, Len(batchDims))
          IN /\ sliceIndex = next[Len(next)]
             /\ nextBatch # last.nav.b => batchIndices = nextBatch

\* a backward tick read [0, 0], 0 and every axis wrapped to its maximum
C11_Witness ==
  /\ last.kind = "frame" /\ last.nav.axis = 0 /\ last.nav.delta = -1
  /\ last.nav.b = <<0, 0>> /\ last.nav.s = 0
  /\ batchIndices = <<1, 2>> /\ sliceIndex = 3

C13_OrientationResetsSlice ==
  last.kind = "orientation" => sliceIndex = 0 /\ targetIndexRef = 0

\* the orientation changed while sliceIndex was not 0
C13_Witness ==
  /\ last.kind = "orientation" /\ last.nav.s > 0
  /\ sliceIndex = 0 /\ targetIndexRef = 0

\* the keys held by the slice cache, whatever their order of use
CachedKeys(cache) == {cache[k] : k \in 1..Len(cache)}

\* a step that scrolled or edited the spatial scroll axis
SliceAxisStep ==
  /\ last'.kind \in {"edit", "frame"}
  /\ last'.nav.axis = Len(batchDims) + 1

\* what a step of the spatial scroll axis does to sliceIndex and what it
\* leaves alone: sliceIndex stays in [0, scrollMax-1] (a scroll moves it by
\* one step, clamped), the ContextKey, the context token and the set of
\* cached entries are unchanged
SliceAxisKeepsKey ==
  /\ sliceIndex' \in 0..(scrollMax - 1)
  /\ (last'.kind = "frame" /\ frame.o = orientation)
       => sliceIndex' = Clamp(sliceIndex + last'.nav.delta, scrollMax - 1)
  /\ currentContext' = currentContext
  /\ contextTokenRef' = contextTokenRef
  /\ CachedKeys(cacheRef') = CachedKeys(cacheRef)

\* C14 (as stated): a scroll or edit of the spatial scroll axis changes
\* sliceIndex (clamped to [0, scrollMax-1]) and does not change the
\* ContextKey: the context token, the set of cached entries and the
\* auto-window are left unchanged by it.
C14_SliceAxisKeepsWindow ==
  [][SliceAxisStep =>
       /\ SliceAxisKeepsKey
       /\ UNCHANGED <<vmin, vmax, autoWindowContextRef>>]_vars

\* C14 (amended): a scroll or edit of the spatial scroll axis changes
\* sliceIndex (clamped to [0, scrollMax-1]) and does not change the
\* ContextKey, the context token or the set of cached entries; an auto-window
\* that was already applied for the current context is left unchanged, and
\* otherwise the step can only apply the auto-window of the current context
\* (when it displays the context's first slice from the cache).
C14_SliceAxisKeepsContext ==
  [][SliceAxisStep =>
       /\ SliceAxisKeepsKey
       /\ autoWindowContextRef = currentContext
            => UNCHANGED <<vmin, vmax, autoWindowContextRef>>
       /\ autoWindowContextRef' \in {autoWindowContextRef, currentContext}]_vars

\* a scroll of the slice axis displayed another slice from the cache and the
\* window is still the one computed from the first slice of the context
C14_Witness ==
  /\ last.kind = "frame" /\ last.nav.axis = Len(batchDims) + 1
  /\ last.nav.s = 0 /\ sliceIndex = 1
  /\ displayedSlice = makeSliceKey(orientation, batchIndices, 1)
  /\ autoWindowContextRef = currentContext
  /\ <<vmin, vmax>> =
       computePercentiles(SliceData(makeSliceKey(orientation, batchIndices, 0)), 1, 99)

\* a navigation control is rendered: an orientation button, an axis chip
\* (scroll or edit) or the canvas (odometer scroll)
NavigationAvailable ==
  \/ ControlsShown
  \/ \E a \in 1..(Len(batchDims) + 1) : ChipShown(a)
  \/ CanvasShown

\* C15: the navigation state machine has no terminal state: at least one
\* navigation transition is available to the user in every state of the
\* viewer; stated here for the states in which nothing is pending (every
\* response has arrived and no frame callback is scheduled), where nothing
\* but the user can change the state.
C15_NoTerminalState ==
  (requests = {} /\ frame = NoFrame) => NavigationAvailable

\* a step that scrolled or edited a batch axis
BatchAxisStep ==
  /\ last'.kind \in {"edit", "frame"}
  /\ last'.nav.axis \in 1..Len(batchDims)

\* C16: the context token is bumped exactly when the ContextKey changes, and
\* a scroll or edit of a batch axis whose clamped result equals the current
\* batch index leaves the token, the cache, the in-flight table and the
\* displayed slice unchanged.
C16_BumpedOnlyOnKeyChange ==
  [][/\ contextTokenRef' # contextTokenRef <=> currentContext' # currentContext
     /\ (BatchAxisStep /\ batchIndices' = batchIndices)
          => UNCHANGED <<contextTokenRef, cacheRef, inflightRef, displayedSlice>>]_vars

\* ============================================ the WebGL2 compatibility shim
\* (utils/regl-webgl2-compat.ts)
MaxNesting == 2
MaxWraps == 2

GL_DEPTH_COMPONENT == 6402        \* 0x1902
GL_DEPTH_STENCIL == 34041         \* 0x84f9
GL_LUMINANCE == 6409              \* 0x1909
GL_LUMINANCE_ALPHA == 6410        \* 0x190a
HALF_FLOAT_OES == 36193           \* 0x8d61
UNSIGNED_INT_24_8_WEBGL == 34042  \* 0x84fa
\* the constants of the WebGL2 context that the shim reads (gl.FLOAT, ...)
FLOAT == 5126                     \* 0x1406
HALF_FLOAT == 5131                \* 0x140B
RGB == 6407                       \* 0x1907
RGBA == 6408                      \* 0x1908
RED == 6403                       \* 0x1903
RG == 33319                       \* 0x8227
R32F == 33326                     \* 0x822E
RG32F == 33328                    \* 0x8230
RGB32F == 34837                   \* 0x8815
RGBA32F == 34836                  \* 0x8814
R16F == 33325                     \* 0x822D
RG16F == 33327                    \* 0x822F
RGB16F == 34843                   \* 0x881B
RGBA16F == 34842                  \* 0x881A
DEPTH_COMPONENT24 == 33190        \* 0x81A6
DEPTH24_STENCIL8 == 35056         \* 0x88F0

\* the formats and types of WebGL1 texture uploads; 6406 is ALPHA, 5121
\* UNSIGNED_BYTE, 5123 UNSIGNED_SHORT, 5125 UNSIGNED_INT
LegacyFormats ==
  {6406, RGB, RGBA, GL_LUMINANCE, GL_LUMINANCE_ALPHA, GL_DEPTH_COMPONENT,
   GL_DEPTH_STENCIL}
LegacyTypes ==
  {5121, 5123, 5125, UNSIGNED_INT_24_8_WEBGL, FLOAT, HALF_FLOAT_OES}

getInternalFormat(format, type) ==
  IF format = GL_DEPTH_COMPONENT THEN DEPTH_COMPONENT24
  ELSE IF format = GL_DEPTH_STENCIL THEN DEPTH24_STENCIL8
  ELSE IF type = FLOAT /\ format = RGBA THEN RGBA32F
  ELSE IF type = FLOAT /\ format = RGB THEN RGB32F
  ELSE IF type = FLOAT /\ format = GL_LUMINANCE THEN R32F
  ELSE IF type = FLOAT /\ format = GL_LUMINANCE_ALPHA THEN RG32F
  ELSE IF type = HALF_FLOAT_OES /\ format = RGBA THEN RGBA16F
  ELSE IF type = HALF_FLOAT_OES /\ format = RGB THEN RGB16F
  ELSE IF type = HALF_FLOAT_OES /\ format = GL_LUMINANCE THEN R16F
  ELSE IF type = HALF_FLOAT_OES /\ format = GL_LUMINANCE_ALPHA THEN RG16F
  ELSE format

getTextureType(type) == IF type = HALF_FLOAT_OES THEN HALF_FLOAT ELSE type

getPixelFormat(format, type) ==
  IF (type = FLOAT \/ type = HALF_FLOAT_OES) /\ format = GL_LUMINANCE THEN RED
  ELSE IF (type = FLOAT \/ type = HALF_FLOAT_OES) /\ format = GL_LUMINANCE_ALPHA THEN RG
  ELSE format

\* (a wrapper that translates the type first and derives the formats from
\* the translated type)
texImage2DFromRewritten(args) ==
  IF Len(args) = 6
    THEN <<args[1], args[2], getInternalFormat(args[3], getTextureType(args[5])),
           getPixelFormat(args[4], getTextureType(args[5])),
           getTextureType(args[5]), args[6]>>
    ELSE <<args[1], args[2], getInternalFormat(args[3], getTextureType(args[8])),
           args[4], args[5], args[6],
           getPixelFormat(args[7], getTextureType(args[8])),
           getTextureType(args[8]), args[9]>>

\* the texImage2D installed by wrapGLContext: the arguments it passes to the
\* texImage2D it replaced; args is <<target, level, iformat, format, type,
\* source>> or <<target, level, iformat, w, h, border, format, type, data>>
texImage2D(args) ==
  IF Len(args) = 6
    THEN <<args[1], args[2], getInternalFormat(args[3], args[5]),
           getPixelFormat(args[4], args[5]), getTextureType(args[5]), args[6]>>
    ELSE <<args[1], args[2], getInternalFormat(args[3], args[8]),
           args[4], args[5], args[6],
           getPixelFormat(args[7], args[8]), getTextureType(args[8]), args[9]>>

RECURSIVE texImage2DThrough(_, _)
\* a context wrapped n times: each wrapper calls the one it replaced
texImage2DThrough(args, n) ==
  IF n = 0 THEN args ELSE texImage2DThrough(texImage2D(args), n - 1)

\* (an interception that wraps whatever origGetContext returned:
\* wrapGLContext(null) throws on its first assignment)
interceptedNoNullCheck(r) ==
  IF r.gl THEN [r EXCEPT !.wraps = @ + 1] ELSE [r EXCEPT !.threw = TRUE]

\* the function installed by overrideContextType, given what its
\* origGetContext.call(this, "webgl2", attrs) returned:
\* gl ? wrapGLContext(gl, extensions) : null
interceptedGetContext(r) ==
  IF r.gl THEN [r EXCEPT !.wraps = @ + 1] ELSE r

RECURSIVE callGetContext(_, _, _)
\* a call of the function fn; created: the browser can create the context.
\* An interception calls the function that was installed when its
\* overrideContextType call began.
callGetContext(fn, created, w) ==
  IF fn = 0
    THEN [gl |-> created, wraps |-> w, threw |-> FALSE]
    ELSE interceptedGetContext(callGetContext(origGetContext[fn], created, w))

\* what the caller of canvas.getContext gets
acquiredOf(fn, r) ==
  IF r.threw THEN "exception"
  ELSE IF ~r.gl THEN "null"
  ELSE IF fn = 0 THEN "unwrapped" ELSE "wrapped"

\* (a restore placed after the callback's return instead of in finally)
overrideExitNoFinally(orig, outcome) ==
  [getContext |-> IF outcome.kind = "throw" THEN getContext ELSE orig,
   delivered |-> outcome]

\* try { return callback(); } finally { prototype.getContext = origGetContext; }
overrideExit(orig, outcome) == [getContext |-> orig, delivered |-> outcome]

\* what a callback can do at its end: return a value or throw one
Outcomes == [kind : {"return", "throw"}, value : {"regl", "other"}]

\* overrideContextType(canvas, callback) up to the call of callback
OverrideEnter ==
  /\ Len(origGetContext) < MaxNesting
  /\ origGetContext' = Append(origGetContext, getContext)
  /\ getContext' = Len(origGetContext) + 1
  /\ shimStep' = [NoShimStep EXCEPT !.kind = "enter"]
  /\ UNCHANGED <<wraps, acquired, delivered, texArgs, texPassed>>
  /\ UNCHANGED nonShimVars

\* canvas.getContext("webgl", attrs), by the callback or by other code
CallGetContext(created) ==
  /\ getContext + wraps <= MaxWraps
  /\ LET r == callGetContext(getContext, created, wraps)
     IN /\ wraps' = r.wraps
        /\ acquired' = acquiredOf(getContext, r)
  /\ shimStep' = [NoShimStep EXCEPT !.kind = "getContext", !.fn = getContext,
                                    !.created = created]
  /\ UNCHANGED <<getContext, origGetContext, delivered, texArgs, texPassed>>
  /\ UNCHANGED nonShimVars

\* the callback of the innermost overrideContextType call returns or throws
OverrideExit(outcome) ==
  /\ origGetContext # <<>>
  /\ LET x == overrideExit(origGetContext[Len(origGetContext)], outcome)
     IN /\ getContext' = x.getContext
        /\ delivered' = x.delivered
  /\ origGetContext' = SubSeq(origGetContext, 1, Len(origGetContext) - 1)
  /\ shimStep' = [NoShimStep EXCEPT !.kind = "exit", !.outcome = outcome]
  /\ UNCHANGED <<wraps, acquired, texArgs, texPassed>>
  /\ UNCHANGED nonShimVars

\* the argument lists of the two call signatures, as a WebGL1 caller builds
\* them: the internal format argument equals the format argument
TexImageArgs ==
  {<<3553, 0, f, f, t, "source">> : f \in LegacyFormats, t \in LegacyTypes}
  \cup {<<3553, 0, f, 2, 2, 0, f, t, "data">> :
          f \in LegacyFormats, t \in LegacyTypes}

\* gl.texImage2D(...) on the wrapped context
TexImage2D(args) ==
  /\ wraps > 0
  /\ texArgs' = args
  /\ texPassed' = texImage2DThrough(args, wraps)
  /\ shimStep' = [NoShimStep EXCEPT !.kind = "texImage2D"]
  /\ UNCHANGED <<getContext, origGetContext, wraps, acquired, delivered>>
  /\ UNCHANGED nonShimVars

NextShim ==
  \/ OverrideEnter
  \/ \E created \in BOOLEAN : CallGetContext(created)
  \/ \E outcome \in Outcomes : OverrideExit(outcome)
  \/ \E args \in TexImageArgs : TexImage2D(args)

SpecShim == Init /\ [][NextShim]_vars

\* the internal format, pixel format and type of an argument list
FormatsOf(args) ==
  IF Len(args) = 6 THEN <<args[3], args[4], args[5]>>
                   ELSE <<args[3], args[7], args[8]>>
\* the arguments that are neither format nor type
RestOf(args) ==
  IF Len(args) = 6 THEN <<args[1], args[2], args[6]>>
                   ELSE <<args[1], args[2], args[4], args[5], args[6], args[9]>>

\* the pairs the shim promotes to a sized internal format
PromotedTable(f, t) ==
  CASE f = GL_LUMINANCE /\ t = FLOAT -> <<R32F, RED, FLOAT>>
    [] f = GL_LUMINANCE_ALPHA /\ t = FLOAT -> <<RG32F, RG, FLOAT>>
    [] f = RGBA /\ t = FLOAT -> <<RGBA32F, RGBA, FLOAT>>
    [] f = RGB /\ t = FLOAT -> <<RGB32F, RGB, FLOAT>>
    [] f = GL_LUMINANCE /\ t = HALF_FLOAT_OES -> <<R16F, RED, HALF_FLOAT>>
    [] f = GL_LUMINANCE_ALPHA /\ t = HALF_FLOAT_OES -> <<RG16F, RG, HALF_FLOAT>>
    [] f = RGBA /\ t = HALF_FLOAT_OES -> <<RGBA16F, RGBA, HALF_FLOAT>>
    [] f = RGB /\ t = HALF_FLOAT_OES -> <<RGB16F, RGB, HALF_FLOAT>>
    [] OTHER -> <<>>
DepthTable(f) ==
  CASE f = GL_DEPTH_COMPONENT -> DEPTH_COMPONENT24
    [] f = GL_DEPTH_STENCIL -> DEPTH24_STENCIL8
    [] OTHER -> 0

\* the last texImage2D call was made with a legacy (format, type) pair
LegacyCall ==
  /\ texArgs # <<>>
  /\ FormatsOf(texArgs)[1] = FormatsOf(texArgs)[2]

\* C17 (as stated): for every legacy (format, type) pair the wrapped
\* texImage2D, in both call signatures, passes the internal format, pixel
\* format and type of the table (float and half-float RGBA, RGB, LUMINANCE,
\* LUMINANCE_ALPHA promoted, depth formats sized), and every other pair is
\* passed through unchanged.
C17_EveryOtherPairUnchanged ==
  LegacyCall =>
    LET f == FormatsOf(texArgs)[2]
        t == FormatsOf(texArgs)[3]
        passed == FormatsOf(texPassed)
    IN /\ RestOf(texPassed) = RestOf(texArgs)
       /\ IF PromotedTable(f, t) # <<>> THEN passed = PromotedTable(f, t)
          ELSE IF DepthTable(f) # 0
            THEN passed[1] = DepthTable(f) /\ passed[2] = f
          ELSE passed = <<f, f, t>>

\* C17 (amended): as stated for the promoted pairs and the depth formats; for
\* every other pair the internal format and the pixel format are passed
\* through unchanged, and the type is passed through unchanged unless it is
\* HALF_FLOAT_OES, which is always translated to HALF_FLOAT. The result is
\* the same however many times the context was wrapped.
C17_TexImage2DRewrite ==
  LegacyCall =>
    LET f == FormatsOf(texArgs)[2]
        t == FormatsOf(texArgs)[3]
        passed == FormatsOf(texPassed)
        newType == IF t = HALF_FLOAT_OES THEN HALF_FLOAT ELSE t
    IN /\ RestOf(texPassed) = RestOf(texArgs)
       /\ IF PromotedTable(f, t) # <<>> THEN passed = PromotedTable(f, t)
          ELSE IF DepthTable(f) # 0 THEN passed = <<DepthTable(f), f, newType>>
          ELSE passed = <<f, f, newType>>

\* a 9-argument upload of LUMINANCE + HALF_FLOAT_OES data through a context
\* that was wrapped twice
C17_Witness ==
  /\ wraps = 2
  /\ texArgs = <<3553, 0, GL_LUMINANCE, 2, 2, 0, GL_LUMINANCE, HALF_FLOAT_OES, "data">>
  /\ texPassed = <<3553, 0, R16F, 2, 2, 0, RED, HALF_FLOAT, "data">>

\* C18: overrideContextType intercepts getContext only while its callback
\* runs: the installed function is the interception of the innermost active
\* call and the browser's own function when no call is active, after a
\* return as well as after a throw; each call saved the function that was
\* installed when it began; and the callback's result or exception is what
\* the caller of overrideContextType gets.
C18_InterceptedOnlyDuringCallback ==
  /\ getContext = Len(origGetContext)
  /\ \A k \in 1..Len(origGetContext) : origGetContext[k] = k - 1
  /\ shimStep.kind = "exit" => delivered = shimStep.outcome

\* the callback of the only active call threw: the exception reached the
\* caller and getContext is the browser's function again
C18_Witness ==
  /\ shimStep.kind = "exit" /\ shimStep.outcome.kind = "throw"
  /\ delivered = [kind |-> "throw", value |-> "other"]
  /\ origGetContext = <<>> /\ getContext = 0

\* C19: when the WebGL2 context cannot be created, the intercepted
\* getContext returns null, does not throw, and wraps nothing.
C19_NullWhenWebGL2Unavailable ==
  [][(shimStep'.kind = "getContext" /\ shimStep'.fn > 0 /\ ~shimStep'.created)
       => acquired' = "null" /\ wraps' = wraps]_vars

\* creation failed under two nested interceptions: null, nothing wrapped
C19_Witness ==
  /\ shimStep.kind = "getContext" /\ shimStep.fn = 2 /\ ~shimStep.created
  /\ acquired = "null" /\ wraps = 0

\* the HTTP statuses for which res.ok is false
NonOkStatuses == (100..599) \ (200..299)

\* C20: fetchSlice reports an HTTP 409 response as the error "Job not
\* finished" and every other non-OK status as the error "Failed to fetch
\* slice"; the viewer shows that message when the failed fetch was the
\* current target's.
C20_JobNotFinishedIsDistinct ==
  /\ \A st \in NonOkStatuses :
       /\ fetchSlice(st).name = "Error"
       /\ fetchSlice(st).message =
            (IF st = 409 THEN "Job not finished" ELSE "Failed to fetch slice")
  /\ (last.kind = "response" /\ last.failed /\ last.current)
       => error = (IF last.status = 409 THEN "Job not finished"
                                        ELSE "Failed to fetch slice")

\* the current target's fetch was answered with 409 after a slice had been
\* displayed
C20_Witness ==
  /\ last.kind = "response" /\ last.status = 409 /\ last.current
  /\ error = "Job not finished"
  /\ sliceIndex > 0

\* ===================================== the coordinate transform (transform.ts)
\* JavaScript numbers are binary floating-point numbers: every arithmetic
\* operation returns the representable number nearest to the exact result
\* (ties to even). The model keeps that rounding with a significand of
\* MantissaBits bits (53 in the program) and an unbounded exponent; a number
\* is a fraction [n, d] with d > 0.
MantissaBits == 6

RECURSIVE Pow2(_)
Pow2(k) == IF k = 0 THEN 1 ELSE 2 * Pow2(k - 1)
RECURSIVE Gcd(_, _)
Gcd(a, b) == IF b = 0 THEN a ELSE Gcd(b, a % b)
Abs(a) == IF a < 0 THEN -a ELSE a
Frac(n, d) == LET g == Gcd(Abs(n), d) IN [n |-> n \div g, d |-> d \div g]
Num(k) == [n |-> k, d |-> 1]
Less(a, b) == a.n * b.d < b.n * a.d
LessEq(a, b) == a.n * b.d <= b.n * a.d
Times(a, b) == Frac(a.n * b.n, a.d * b.d)
Minus(a, b) == Frac(a.n * b.d - b.n * a.d, a.d * b.d)
Over(a, b) == IF b.n < 0 THEN Frac(-(a.n * b.d), a.d * (-b.n))
                         ELSE Frac(a.n * b.d, a.d * b.n)

\* round n/d, with 2^(p-1) <= n/d < 2^p, to the nearest integer, ties to even
NearestEven(n, d) ==
  LET m == n \div d
      r == n - m * d
  IN IF 2 * r > d \/ (2 * r = d /\ m % 2 = 1) THEN m + 1 ELSE m

RECURSIVE RoundScaled(_, _, _, _)
\* round the positive fraction n/d scaled by 2^e to MantissaBits bits
RoundScaled(n, d, e, p) ==
  IF n >= Pow2(p) * d THEN RoundScaled(n, 2 * d, e + 1, p)
  ELSE IF n < Pow2(p - 1) * d THEN RoundScaled(2 * n, d, e - 1, p)
  ELSE IF e >= 0 THEN Frac(NearestEven(n, d) * Pow2(e), 1)
  ELSE Frac(NearestEven(n, d), Pow2(-e))

\* the floating-point number nearest to the fraction q
Float(q) ==
  IF q.n = 0 THEN q
  ELSE IF q.n > 0 THEN RoundScaled(q.n, q.d, 0, MantissaBits)
  ELSE LET r == RoundScaled(-q.n, q.d, 0, MantissaBits) IN [n |-> -r.n, d |-> r.d]

\* the rectangles of the two branches of getFittedRect
widthConstrained(containerWidth, containerHeight, imageAspect) ==
  LET height == Float(Over(containerWidth, imageAspect))
  IN [x |-> Num(0),
      y |-> Float(Times(Float(Minus(containerHeight, height)), Frac(1, 2))),
      width |-> containerWidth, height |-> height]
heightConstrained(containerWidth, containerHeight, imageAspect) ==
  LET width == Float(Times(containerHeight, imageAspect))
  IN [x |-> Float(Times(Float(Minus(containerWidth, width)), Frac(1, 2))),
      y |-> Num(0),
      width |-> width, height |-> containerHeight]

\* (a fit that always takes the height-constrained branch)
getFittedRectNoCompare(containerWidth, containerHeight, imageWidth, imageHeight) ==
  heightConstrained(containerWidth, containerHeight,
                    Float(Over(imageWidth, imageHeight)))

getFittedRect(containerWidth, containerHeight, imageWidth, imageHeight) ==
  IF Less(Float(Over(containerWidth, containerHeight)),
          Float(Over(imageWidth, imageHeight)))
    THEN widthConstrained(containerWidth, containerHeight,
                          Float(Over(imageWidth, imageHeight)))
    ELSE heightConstrained(containerWidth, containerHeight,
                           Float(Over(imageWidth, imageHeight)))

\* container and image sizes in pixels
FitSizes == {1, 2, 3, 7, 15, 21}

InitFit ==
  /\ ViewerInit(SmallShape, MaxGestures, Mounted(SmallShape))
  /\ ShimLoaded
  /\ fitArgs \in FitSizes \X FitSizes \X FitSizes \X FitSizes
  /\ fitRect = <<>>
  /\ CanvasIdle
  /\ TicksIdle

\* getFittedRect(containerWidth, containerHeight, imageWidth, imageHeight)
CallGetFittedRect ==
  /\ fitRect = <<>>
  /\ fitRect' = <<getFittedRect(Num(fitArgs[1]), Num(fitArgs[2]),
                                Num(fitArgs[3]), Num(fitArgs[4]))>>
  /\ UNCHANGED fitArgs
  /\ UNCHANGED nonFitVars

NextFit == CallGetFittedRect

SpecFit == InitFit /\ [][NextFit]_vars

Plus(a, b) == Frac(a.n * b.d + b.n * a.d, a.d * b.d)
\* |a - b| <= k * 2^-MantissaBits * scale
Within(a, b, k, scale) ==
  LET diff == Minus(a, b)
      tol == Times(Frac(k, Pow2(MantissaBits)), scale)
  IN LessEq(diff, tol) /\ LessEq(Minus(b, a), tol)

\* the claim's example, on the program's function
FitExample ==
  getFittedRect(Num(800), Num(600), Num(100), Num(50))
    = [x |-> Num(0), y |-> Num(100), width |-> Num(800), height |-> Num(400)]

\* the rectangle r spans the container exactly on one axis, with offset 0
\* there, and has the image's aspect ratio and is centered in the container
\* as far as the rounding of the floating-point operations allows (a
\* relative error of at most 3 * 2^-MantissaBits)
FitsAspectCentered(r, cw, ch, iw, ih) ==
  /\ \/ r.width = cw /\ r.x = Num(0)
     \/ r.height = ch /\ r.y = Num(0)
  /\ Within(Times(r.width, ih), Times(r.height, iw), 3, Times(r.height, iw))
  /\ Within(Plus(Plus(r.x, r.x), r.width), cw, 3, cw)
  /\ Within(Plus(Plus(r.y, r.y), r.height), ch, 3, ch)

\* C21 (as stated): the rectangle has the image's aspect ratio, lies inside
\* the container, is centered in it and spans the container fully on the
\* constrained axis; getFittedRect(800,600,100,50) is {0, 100, 800, 400}.
C21_FittedRectInside ==
  /\ FitExample
  /\ fitRect # <<>> =>
       LET r == fitRect[1]
           cw == Num(fitArgs[1])
           ch == Num(fitArgs[2])
       IN /\ FitsAspectCentered(r, cw, ch, Num(fitArgs[3]), Num(fitArgs[4]))
          /\ LessEq(Num(0), r.x) /\ LessEq(Num(0), r.y)
          /\ LessEq(Plus(r.x, r.width), cw) /\ LessEq(Plus(r.y, r.height), ch)

\* C21 (amended): as stated, except that the rectangle lies inside the
\* container only up to rounding: its width and height exceed the
\* container's, and its offsets fall below 0, by at most a relative error of
\* 3 * 2^-MantissaBits.
C21_FittedRect ==
  /\ FitExample
  /\ fitRect # <<>> =>
       LET r == fitRect[1]
           cw == Num(fitArgs[1])
           ch == Num(fitArgs[2])
       IN /\ FitsAspectCentered(r, cw, ch, Num(fitArgs[3]), Num(fitArgs[4]))
          /\ Less(r.width, cw) \/ Within(r.width, cw, 3, cw)
          /\ Less(r.height, ch) \/ Within(r.height, ch, 3, ch)
          /\ Less(Num(0), r.x) \/ Within(r.x, Num(0), 3, cw)
          /\ Less(Num(0), r.y) \/ Within(r.y, Num(0), 3, ch)

\* an image of the container's aspect ratio whose computed width is rounded
\* up past the container's width
C21_Witness ==
  /\ fitRect # <<>>
  /\ fitArgs[1] * fitArgs[4] = fitArgs[2] * fitArgs[3]
  /\ Less(Num(fitArgs[1]), fitRect[1].width) /\ Less(fitRect[1].x, Num(0))
  /\ fitRect[1].height = Num(fitArgs[2])

\* the indices of the prefetch window of the current target
prefetchWindow ==
  LET order == prefetchOrder(resultShape, orientation, targetIndexRef)
  IN {order[k] : k \in 1..Len(order)}

\* the requests in flight for the current context: started by a
\* requestSliceSet call that captured the current token
liveRequests ==
  {r \in requests : r.token = contextTokenRef /\ KeyContext(r.key) = currentContext}

\* C22: once requestSliceSet(T) has run, every request in flight for the
\* context has its key inside the prefetch window {T, T+1, T-1, T+2, T-2}:
\* the requests outside it were aborted, and a call whose target was
\* superseded starts no neighbor fetch afterwards.
C22_OnlyWindowInFlight ==
  \A r \in liveRequests : r.key.i \in prefetchWindow

\* C23: in every reachable state at most 5 slice requests are in flight,
\* whatever re-targets and context changes led to it.
C23_FanOutBounded == Cardinality(requests) <= 5

\* a step in which a slice fetch succeeded
SuccessStep == last'.kind = "response" /\ last'.status = 200

\* C24: when a fetch started by loadSlice succeeds, its entry is in the
\* cache afterwards, whether or not the token captured when the request was
\* started is still the current token.
C24_SuccessIsCached ==
  [][SuccessStep => \A r \in requests \ requests' : InSeq(cacheRef', r.key)]_vars

\* the requests a requestSliceSet(T) call of the current closure starts
\* before its first await
startedBeforeAwait(T) ==
  requestSliceSet(Machine, orientation, batchIndices, T).reqs \ requests

\* the call awaits the promise of its own target
AwaitsOwnTarget(w) ==
  \A r \in requests :
    r.id = w.id => r.key = makeSliceKey(w.o, w.b, w.target)

\* C25: within one requestSliceSet call the first request started is the
\* one for the target index, and no neighbor fetch is started before the
\* target's fetch has settled: up to its first await a call starts at most
\* the target's request, and every call that awaits awaits its own target.
C25_TargetBeforeNeighbors ==
  /\ \A T \in 0..(scrollMax - 1) :
       \A r \in startedBeforeAwait(T) :
         r.key = makeSliceKey(orientation, batchIndices, T)
  /\ \A k \in 1..Len(calls) : AwaitsOwnTarget(calls[k])

\* a call awaits the fetch of its target, which it started, while the
\* target's neighbor is neither cached nor requested
C25_Witness ==
  /\ last.kind = "edit"
  /\ \E k \in 1..Len(calls) :
       /\ calls[k].target = targetIndexRef /\ calls[k].token = contextTokenRef
       /\ \E r \in liveRequests : r.id = calls[k].id /\ r.key.i = targetIndexRef
  /\ targetIndexRef + 1 < scrollMax
  /\ ~InSeq(cacheRef, makeSliceKey(orientation, batchIndices, targetIndexRef + 1))
  /\ \A r \in requests : r.key.i # targetIndexRef + 1

\* a step of the spatial scroll axis within one context whose new target is
\* in the cache: the slice effect calls requestSliceSet(sliceIndex')
CachedTargetStep ==
  /\ SliceAxisStep
  /\ sliceIndex' # sliceIndex
  /\ contextTokenRef' = contextTokenRef
  /\ InSeq(cacheRef, makeSliceKey(orientation, batchIndices, sliceIndex'))

\* the call up to its first await: the target is displayed and is the most
\* recently used entry, and no request was started
ShownBeforeAwait(m, key) ==
  /\ m.displayed = key
  /\ ~m.isLoading
  /\ m.cache[Len(m.cache)] = key
  /\ m.reqs = requests

\* C26: when the target of requestSliceSet(T) is cached, it is the displayed
\* slice and the most recently used cache entry before the call awaits
\* anything, and the call starts no network request for T.
C26_CachedTargetShownAtOnce ==
  [][CachedTargetStep =>
       /\ ShownBeforeAwait(
            requestSliceSet(Machine, orientation, batchIndices, sliceIndex'),
            makeSliceKey(orientation, batchIndices, sliceIndex'))
       /\ displayedSlice' = makeSliceKey(orientation, batchIndices, sliceIndex')
       /\ \A r \in requests' \ requests : r.key.i # sliceIndex']_vars

\* after moving to a slice that was cached and not displayed: it is displayed
\* although no response arrived since
C26_Witness ==
  /\ last.kind \in {"edit", "frame"}
  /\ last.nav.axis = Len(batchDims) + 1
  /\ last.nav.s # sliceIndex
  /\ displayedSlice = makeSliceKey(orientation, batchIndices, sliceIndex)
  /\ InSeq(cacheRef, displayedSlice)
  /\ \A r \in requests : r.key # displayedSlice

\* a step in which the frame callback of an odometer tick ran
OdometerStep == last'.kind = "frame" /\ last'.nav.axis = 0

\* C27: an odometer tick changes the ContextKey, bumps the token or changes
\* the cached entries only if a batch index differs after the tick; a tick
\* after which batchIndices is what it was leaves the token and the set of
\* cached entries unchanged.
C27_OdometerBumpsOnlyOnBatchChange ==
  [][(OdometerStep /\ batchIndices' = batchIndices) =>
       /\ currentContext' = currentContext
       /\ contextTokenRef' = contextTokenRef
       /\ CachedKeys(cacheRef') = CachedKeys(cacheRef)]_vars

\* everything a wheel handler or its frame callback could change
scrollState ==
  <<orientation, batchIndices, sliceIndex, pendingUpdate, frame, display,
    cacheRef, inflightRef, contextTokenRef, targetIndexRef, requests, calls>>

\* C28: at most one recomputation is pending, shared by the odometer and
\* the single-axis scroll: the flag is set exactly while one frame callback
\* is scheduled; a wheel gesture is accepted only while none is pending and
\* then schedules one; a gesture arriving while one is pending changes no
\* state; the frame callback clears the flag, so that the next gesture is
\* accepted again.
C28_OnePendingRecomputation ==
  [][/\ pendingUpdate' <=> frame' # NoFrame
     /\ last'.kind = "wheel" =>
          ~pendingUpdate /\ pendingUpdate' /\ frame = NoFrame
     /\ (last'.kind \in {"wheel", "dropped"} /\ pendingUpdate) =>
          UNCHANGED scrollState
     /\ last'.kind = "frame" =>
          pendingUpdate /\ ~pendingUpdate' /\ acceptsGesture(pendingUpdate')]_vars

\* a wheel gesture arrived while a frame callback was scheduled and was
\* dropped; the callback is still scheduled
C28_Witness ==
  /\ last.kind = "dropped"
  /\ pendingUpdate
  /\ frame # NoFrame

\* the request of an entry of the in-flight table has not completed
EntryIsLive(e) == \E r \in requests : r.id = e.id /\ r.key = e.key

\* C29: when a request completes, by success, by failure or by
\* cancellation, its entry is removed from the in-flight table: every entry
\* of the table belongs to a request that has not settled, and once every
\* issued request has settled the table is empty.
C29_SettledLeavesTable ==
  /\ \A k \in 1..Len(inflightRef) : EntryIsLive(inflightRef[k])
  /\ requests = {} => inflightRef = <<>>

\* the last request in flight has just settled and the table is empty
C29_Witness ==
  /\ last.kind = "response"
  /\ requests = {}
  /\ inflightRef = <<>>

\* ======================================== the rendering canvas (ReglCanvas)
\* (components/viewer/ReglCanvas.tsx, two revisions, and the revision that
\* runs on the WebGL2 shim)
MaxContexts == 2
MaxDraws == 3
\* regl.limits.maxTextureSize of the GPU
maxTextureSize == 2

Revisions == 1..LatestRevision

\* the props a slice draw passes: width, height, sliceData (its length and
\* its contents) and, in the second revision, sliceDtype
SliceProps ==
  {[width |-> w, height |-> h, len |-> Max2(0, w * h) + e, data |-> d,
    sliceDtype |-> "float32"] :
     w \in (-1)..(maxTextureSize + 1), h \in 1..maxTextureSize,
     e \in {0, 1}, d \in {1, 2}}

Canvas ==
  [regl |-> reglRef, tex |-> sliceTextureRef, spec |-> sliceTextureSpecRef,
   gpu |-> gpuTexture, textures |-> textures, rel |-> sliceReleases,
   ctx |-> contextReleases]

\* createREGL({canvas, ...}), the colormap texture and the draw command
createREGL(c, id) ==
  [c EXCEPT !.regl = id,
            !.ctx = Append(@, [colormap |-> 0, program |-> 0, context |-> 0])]

\* sliceTextureRef.current = regl.texture({width, height, data: sliceData, ...})
reglTexture(c, p) ==
  [c EXCEPT !.textures = @ + 1,
            !.tex = c.textures + 1,
            !.rel = Append(@, [regl |-> c.regl, n |-> 0]),
            !.gpu = [width |-> p.width, height |-> p.height, data |-> p.data,
                     regl |-> c.regl]]

\* sliceTextureRef.current({width, height, data: sliceData, ...})
reinitTexture(c, p) ==
  [c EXCEPT !.gpu = [@ EXCEPT !.width = p.width, !.height = p.height,
                              !.data = p.data]]

\* if (sliceTextureRef.current) { destroy(); sliceTextureRef.current = null }
destroyTexture(c) ==
  IF c.tex # 0
    THEN [c EXCEPT !.tex = 0, !.gpu = NoGpuTexture, !.rel[c.tex].n = @ + 1]
    ELSE c

\* if (colormapTextureRef.current) { destroy(); colormapTextureRef.current = null }
destroyColormap(c) == [c EXCEPT !.ctx[c.regl].colormap = @ + 1]

\* nextSpec = { width, height, sliceDtype, regl }
nextSpec(c, p) ==
  <<[width |-> p.width, height |-> p.height, sliceDtype |-> p.sliceDtype,
     regl |-> c.regl]>>

\* regl.destroy(): the context releases the textures it still holds (a
\* texture destroyed before is no longer among them), the draw program and
\* itself
reglDestroy(c) ==
  [c EXCEPT !.rel = [k \in 1..Len(c.rel) |->
                       IF c.rel[k].regl = c.regl /\ c.rel[k].n = 0
                         THEN [c.rel[k] EXCEPT !.n = 1] ELSE c.rel[k]],
            !.ctx[c.regl] = [colormap |-> IF @.colormap = 0 THEN 1 ELSE @.colormap,
                             program |-> @.program + 1,
                             context |-> @.context + 1]]

\* the refs are set to null
clearRefs(c) ==
  [c EXCEPT !.regl = 0, !.tex = 0, !.spec = <<>>, !.gpu = NoGpuTexture]

\* (a cleanup that destroys the textures after the context)
cleanupContextFirst(rev, c) ==
  clearRefs(destroyColormap(destroyTexture(reglDestroy(c))))

\* the cleanup of the initialisation effect: the first revision destroys the
\* two textures and then the context, the later ones only the context
cleanup(rev, c) ==
  IF rev = 1 THEN clearRefs(reglDestroy(destroyColormap(destroyTexture(c))))
  ELSE clearRefs(reglDestroy(c))

Skipped(c) == [c |-> c, upload |-> "skipped"]

\* the slice upload effect of the first revision; regl.texture checks the
\* size against the limits of the context and throws
sliceUploadFirst(c, p) ==
  IF c.regl = 0 THEN Skipped(c)
  ELSE IF p.width = 0 \/ p.height = 0 THEN Skipped(c)
  ELSE IF p.len # p.width * p.height THEN Skipped(c)
  ELSE IF p.width > maxTextureSize \/ p.height > maxTextureSize
    THEN [c |-> destroyTexture(c), upload |-> "threw"]
  ELSE [c |-> reglTexture(destroyTexture(c), p), upload |-> "created"]

\* contextChanged = !previousSpec || previousSpec.regl !== regl
contextChanged(c) == c.spec = <<>> \/ c.spec[1].regl # c.regl

\* needsAllocate of the second revision, for a context that did not change
needsAllocate(c, p) ==
  \/ c.spec[1].width # p.width
  \/ c.spec[1].height # p.height
  \/ c.spec[1].sliceDtype # p.sliceDtype

\* the guards of the later revisions
uploadGuards(c, p) ==
  /\ c.regl # 0
  /\ p.width > 0 /\ p.height > 0
  /\ p.len = p.width * p.height
  /\ p.width <= maxTextureSize /\ p.height <= maxTextureSize

\* the slice upload effect of the second revision
sliceUploadSecond(c, p) ==
  IF ~uploadGuards(c, p) THEN Skipped(c)
  ELSE IF c.tex = 0 \/ contextChanged(c)
    THEN [c |-> [reglTexture(c, p) EXCEPT !.spec = nextSpec(c, p)],
          upload |-> "created"]
  ELSE IF needsAllocate(c, p)
    THEN [c |-> [reinitTexture(c, p) EXCEPT !.spec = nextSpec(c, p)],
          upload |-> "updated"]
  ELSE [c |-> reinitTexture(c, p), upload |-> "updated"]

\* the slice upload effect of the latest revision
sliceUploadLatest(c, p) ==
  IF ~uploadGuards(c, p) THEN Skipped(c)
  ELSE IF c.tex = 0 \/ contextChanged(c)
    THEN [c |-> [reglTexture(c, p) EXCEPT !.spec = nextSpec(c, p)],
          upload |-> "created"]
  ELSE [c |-> [reinitTexture(c, p) EXCEPT !.spec = nextSpec(c, p)],
        upload |-> "updated"]

sliceUpload(rev, c, p) ==
  CASE rev = 1 -> sliceUploadFirst(c, p)
    [] rev = 2 -> sliceUploadSecond(c, p)
    [] OTHER -> sliceUploadLatest(c, p)

CommitCanvas(c) ==
  /\ reglRef' = c.regl
  /\ sliceTextureRef' = c.tex
  /\ sliceTextureSpecRef' = c.spec
  /\ gpuTexture' = c.gpu
  /\ textures' = c.textures
  /\ sliceReleases' = c.rel
  /\ contextReleases' = c.ctx

\* the effect ran; an error thrown by an effect unmounts the component
CommitUpload(kind, u) ==
  /\ CommitCanvas(IF u.upload = "threw" THEN cleanup(revision, u.c) ELSE u.c)
  /\ canvasStep' = [kind |-> kind, upload |-> u.upload]
  /\ draws' = draws + 1

RunUpload(kind, c, p) == CommitUpload(kind, sliceUpload(revision, c, p))

InitCanvas ==
  /\ ViewerInit(SmallShape, MaxGestures, Mounted(SmallShape))
  /\ ShimLoaded
  /\ FitIdle
  /\ revision \in Revisions
  /\ CanvasUnmounted
  /\ TicksIdle

\* the component mounts: the initialisation effect creates the regl context,
\* then the slice upload effect runs
MountCanvas(p) ==
  /\ reglRef = 0
  /\ contexts < MaxContexts
  /\ draws < MaxDraws
  /\ contexts' = contexts + 1
  /\ canvasProps' = p
  /\ RunUpload("mount", createREGL(Canvas, contexts + 1), p)
  /\ UNCHANGED <<revision, canvasSizeRef, backingStore, resizeStep>>
  /\ UNCHANGED nonCanvasVars

\* the component unmounts: the cleanup of the initialisation effect
UnmountCanvas ==
  /\ reglRef # 0
  /\ CommitCanvas(cleanup(revision, Canvas))
  /\ canvasProps' = NoProps
  /\ canvasStep' = [kind |-> "unmount", upload |-> "none"]
  /\ canvasSizeRef' = NoSize
  /\ backingStore' = NoSize
  /\ UNCHANGED <<revision, contexts, draws, resizeStep>>
  /\ UNCHANGED nonCanvasVars

\* another slice is passed: sliceData, width or height changed
SetSlice(p) ==
  /\ reglRef # 0
  /\ draws < MaxDraws
  /\ p # canvasProps
  /\ canvasProps' = p
  /\ RunUpload("slice", Canvas, p)
  /\ UNCHANGED <<revision, contexts, canvasSizeRef, backingStore, resizeStep>>
  /\ UNCHANGED nonCanvasVars

\* vmin or vmax changed: the first two revisions list them in the
\* dependencies of the slice upload effect, the latest only redraws
SetWindow ==
  /\ reglRef # 0
  /\ draws < MaxDraws
  /\ IF revision = LatestRevision
       THEN /\ canvasStep' = [kind |-> "window", upload |-> "none"]
            /\ UNCHANGED <<reglRef, sliceTextureRef, sliceTextureSpecRef,
                           gpuTexture, textures, draws, sliceReleases,
                           contextReleases>>
       ELSE RunUpload("window", Canvas, canvasProps)
  /\ UNCHANGED <<revision, canvasProps, contexts, canvasSizeRef, backingStore,
                 resizeStep>>
  /\ UNCHANGED nonCanvasVars

\* CSS sizes in quarters of a pixel (0.25, 1.25, 1.5 and 2 px) and device
\* pixel ratios in halves (1 and 1.5)
CssSizes == {1, 5, 6, 8}
PixelRatios == {2, 3}

\* Math.max(1, Math.floor(cw * dpr)) with dpr = window.devicePixelRatio || 1
nextSize(css, ratio) ==
  LET dpr == IF ratio = 0 THEN 2 ELSE ratio
  IN  Max2(1, (css * dpr) \div 8)

\* (a comparison that takes every notification for a change)
sizeChangedAlways(ref, w, h) == TRUE

\* canvasSizeRef.current.width !== nextWidth || ...height !== nextHeight
sizeChanged(ref, w, h) == ref.width # w \/ ref.height # h

\* the ResizeObserver callback of the resize effect: the first two revisions
\* bump canvasVersion, which reruns the slice upload effect; the latest calls
\* drawScene()
Resize(cw, ch, ratio) ==
  LET nextWidth == nextSize(cw, ratio)
      nextHeight == nextSize(ch, ratio)
      changed == sizeChanged(canvasSizeRef, nextWidth, nextHeight)
  IN  /\ reglRef # 0
      /\ revision = LatestRevision \/ draws < MaxDraws
      /\ resizeStep' = [cw |-> cw, ch |-> ch, dpr |-> ratio,
                        realloc |-> changed, redraw |-> changed]
      /\ IF changed
           THEN /\ canvasSizeRef' = [width |-> nextWidth, height |-> nextHeight]
                /\ backingStore' = [width |-> nextWidth, height |-> nextHeight]
                /\ IF revision = LatestRevision
                     THEN /\ canvasStep' = [kind |-> "resize", upload |-> "none"]
                          /\ UNCHANGED <<reglRef, sliceTextureRef,
                                         sliceTextureSpecRef, gpuTexture,
                                         textures, draws, sliceReleases,
                                         contextReleases>>
                     ELSE RunUpload("resize", Canvas, canvasProps)
           ELSE /\ canvasStep' = [kind |-> "resize", upload |-> "none"]
                /\ UNCHANGED <<canvasSizeRef, backingStore, reglRef,
                               sliceTextureRef, sliceTextureSpecRef, gpuTexture,
                               textures, draws, sliceReleases, contextReleases>>
      /\ UNCHANGED <<revision, canvasProps, contexts>>
      /\ UNCHANGED nonCanvasVars

NextCanvas ==
  \/ \E p \in SliceProps : MountCanvas(p)
  \/ UnmountCanvas
  \/ \E p \in SliceProps : SetSlice(p)
  \/ SetWindow
SpecCanvas == InitCanvas /\ [][NextCanvas]_vars

\* the canvas under resize notifications
ResizeProps == {p \in SliceProps : p.data = 1 /\ p.len = p.width * p.height}

NextResize ==
  \/ \E p \in ResizeProps : MountCanvas(p)
  \/ UnmountCanvas
  \/ SetWindow
  \/ \E cw, ch \in CssSizes, ratio \in PixelRatios : Resize(cw, ch, ratio)
SpecResize == InitCanvas /\ [][NextResize]_vars

\* a step in which the slice upload effect uploaded a slice
UploadStep == canvasStep'.upload \in {"created", "updated"}
\* the texture of sliceTextureRef belongs to the context and has the size of
\* the slice now drawn
SameContext == sliceTextureRef # 0 /\ gpuTexture.regl = reglRef'
SameSize ==
  gpuTexture.width = canvasProps'.width /\ gpuTexture.height = canvasProps'.height

\* C30: in every slice draw the slice texture is updated in place (the same
\* texture object, with the new pixel data) when width and height are
\* unchanged, and a new texture object is created only when the dimensions
\* changed or the GPU context changed (first draw in a context included).
C30_TextureUpdatedInPlace ==
  [][UploadStep =>
       /\ gpuTexture'.data = canvasProps'.data
       /\ (SameContext /\ SameSize) => sliceTextureRef' = sliceTextureRef
       /\ sliceTextureRef' # sliceTextureRef => (~SameContext \/ ~SameSize)]_vars

\* ---------------------------------------------------------------------------
\* Teardown of the rendering pipeline

TornDown == reglRef = 0

ReleasedAtMostOnce ==
  /\ \A k \in 1..Len(sliceReleases) : sliceReleases[k].n <= 1
  /\ \A k \in 1..Len(contextReleases) :
       /\ contextReleases[k].colormap <= 1
       /\ contextReleases[k].program <= 1
       /\ contextReleases[k].context <= 1

ReleasedOnTeardown ==
  TornDown =>
    /\ \A k \in 1..Len(sliceReleases) : sliceReleases[k].n = 1
    /\ \A k \in 1..Len(contextReleases) :
         contextReleases[k] = [colormap |-> 1, program |-> 1, context |-> 1]

LiveWhileMounted ==
  ~TornDown =>
    /\ contextReleases[reglRef] = [colormap |-> 0, program |-> 0, context |-> 0]
    /\ sliceTextureRef # 0 => sliceReleases[sliceTextureRef].n = 0

ResizeNotified == canvasStep'.kind = "resize"

\* max(1, floor(cssSize * devicePixelRatio)), sizes in quarters and the ratio
\* in halves of a unit
PixelSize(css, ratio) ==
  LET p == (css * ratio) \div 8 IN IF p < 1 THEN 1 ELSE p

NotifiedSize ==
  [width |-> PixelSize(resizeStep'.cw, resizeStep'.dpr),
   height |-> PixelSize(resizeStep'.ch, resizeStep'.dpr)]

CanvasUntouched ==
  UNCHANGED <<canvasSizeRef, backingStore, reglRef, sliceTextureRef,
              sliceTextureSpecRef, gpuTexture, textures, draws, sliceReleases,
              contextReleases, canvasProps, contexts>>

\* C32: a resize notification computes max(1, floor(cssSize * ratio)) per
\* axis; the backing store is set to that size and a redraw is triggered
\* exactly when the width or the height differs from the stored size, and a
\* notification yielding the stored size changes nothing.
C32_ResizeOnlyOnChange ==
  [][ResizeNotified =>
       IF NotifiedSize # canvasSizeRef
         THEN /\ resizeStep'.realloc /\ resizeStep'.redraw
              /\ revision # LatestRevision => draws' = draws + 1
              /\ canvasSizeRef' = NotifiedSize
              /\ backingStore' = NotifiedSize
         ELSE /\ ~resizeStep'.realloc /\ ~resizeStep'.redraw
              /\ CanvasUntouched]_vars

\* a notification of 1.5 px after one of 1.25 px: the same integer size
C32_Witness ==
  /\ canvasStep.kind = "resize"
  /\ ~resizeStep.realloc
  /\ resizeStep.cw = 6
  /\ canvasSizeRef = [width |-> 1, height |-> 2]
  /\ backingStore = canvasSizeRef


\* ---------------------------------------------------------------------------
\* Slices that cannot be uploaded

UploadEffectRan == draws' = draws + 1

InvalidSlice(p) ==
  \/ p.len # p.width * p.height
  \/ p.width <= 0 \/ p.height <= 0
  \/ p.width > maxTextureSize \/ p.height > maxTextureSize

TextureKept ==
  UNCHANGED <<sliceTextureRef, sliceTextureSpecRef, gpuTexture, textures,
              sliceReleases>>

\* C33: a slice whose buffer length differs from width*height, or whose
\* width or height is not positive or exceeds the maximum texture size of the
\* context, is skipped: no texture is created or updated, the stored texture
\* and its spec stay as they were, and the pipeline stays up.
C33_InvalidSliceSkipped ==
  [][UploadEffectRan /\ InvalidSlice(canvasProps') =>
       /\ canvasStep'.upload = "skipped"
       /\ TextureKept
       /\ reglRef' # 0]_vars


\* ---------------------------------------------------------------------------
\* The in-flight entry of a newer request for the same key

HasOwnEntry(r) ==
  \E k \in 1..Len(inflightRef) : inflightRef[k] = [key |-> r.key, id |-> r.id]

\* C34: the settlement of a request removes only its own entry of the
\* in-flight table: every request that was started and has neither settled
\* nor been cancelled still has its entry, also when a cancelled request for
\* the same key settled after it was started.
C34_OwnEntryOnly == \A r \in requests : HasOwnEntry(r)


\* ---------------------------------------------------------------------------
\* Fetches of a context that is no longer current

\* C35: every key of the in-flight table belongs to the current context: no
\* fetch is started for an orientation or batch index that was left, also
\* not by a requestSliceSet call of the old context that resumes after the
\* switch.
C35_InFlightOfCurrentContext ==
  \A k \in 1..Len(inflightRef) :
    KeyContext(inflightRef[k].key) = currentContext


\* ---------------------------------------------------------------------------
\* The cache and the display after a context switch

\* C36: every cache entry belongs to the current context, and so does the
\* displayed slice when there is one: nothing fetched for an orientation or
\* batch index that was left is in the cache or on display.
C36_CacheOfCurrentContext ==
  /\ \A k \in 1..Len(cacheRef) : KeyContext(cacheRef[k]) = currentContext
  /\ displayedSlice # NoSlice => KeyContext(displayedSlice) = currentContext


\* the response of a fetch of a context that was left has arrived with
\* status 200, and the cache holds a slice of the current context
C36_Witness ==
  /\ last.kind = "response" /\ last.status = 200 /\ ~last.ofContext
  /\ cacheRef # <<>>
  /\ displayedSlice # NoSlice


\* ---------------------------------------------------------------------------
\* The odometer as a function of the scroll values

MaxAxes == 3
MaxAxisSize == 3

\* [...batchDims, scrollInfo.max] and [...batchIndices, sliceIndex] in range
ScrollLimits == UNION {[1..n -> 1..MaxAxisSize] : n \in 1..MaxAxes}
ValuesWithin(maxes) ==
  {v \in [1..Len(maxes) -> 0..(MaxAxisSize - 1)] :
     \A k \in 1..Len(maxes) : v[k] < maxes[k]}

InitTicks ==
  /\ ViewerInit(SmallShape, MaxGestures, Mounted(SmallShape))
  /\ ShimLoaded
  /\ FitIdle
  /\ CanvasIdle
  /\ scrollLimits \in ScrollLimits
  /\ scrollValues \in ValuesWithin(scrollLimits)
  /\ tickLog = <<>>

\* one tick of the wheel over the canvas
Tick(delta) ==
  /\ scrollValues' = odometerTick(scrollValues, scrollLimits, delta)
  /\ tickLog' = (IF Len(tickLog) = 2 THEN Tail(tickLog) ELSE tickLog)
                  \o <<[from |-> scrollValues, delta |-> delta]>>
  /\ UNCHANGED scrollLimits
  /\ UNCHANGED nonTickVars

NextTicks == \E delta \in {-1, 1} : Tick(delta)
SpecTicks == InitTicks /\ [][NextTicks]_vars

OppositeTicks ==
  /\ Len(tickLog) = 2
  /\ tickLog[1].delta # tickLog[2].delta

AllZero == \A k \in 1..Len(scrollValues) : scrollValues[k] = 0
AllMax == \A k \in 1..Len(scrollValues) : scrollValues[k] = scrollLimits[k] - 1

\* C37: a forward tick followed by a backward tick, and a backward tick
\* followed by a forward tick, gives back the batch indices and the slice
\* index it started from, also where every axis wraps.
C37_TicksAreInverse ==
  /\ \A k \in 1..Len(scrollValues) :
       scrollValues[k] >= 0 /\ scrollValues[k] < scrollLimits[k]
  /\ OppositeTicks => scrollValues = tickLog[1].from

\* forward from the all-maximum state to the all-zero state and back, on
\* three axes of more than one value each
C37_Witness ==
  /\ OppositeTicks
  /\ tickLog[1].delta = 1
  /\ AllMax
  /\ tickLog[2].from = [k \in 1..Len(scrollValues) |-> 0]
  /\ Len(scrollLimits) = MaxAxes
  /\ \A k \in 1..Len(scrollLimits) : scrollLimits[k] > 1


\* ---------------------------------------------------------------------------
\* The auto-window of a context

WindowApplied ==
  /\ autoWindowContextRef' # autoWindowContextRef
  /\ autoWindowContextRef' # NoContext

\* C38: the auto-window is applied at most once per context, from the slice
\* displayed first after the context became current: a step that applies it
\* displays a slice of the current context and sets vmin and vmax to that
\* slice's percentiles, and once it has been applied no step that keeps the
\* ContextKey overwrites vmin, vmax or the record that it was applied.
C38_AutoWindowOncePerContext ==
  [][/\ WindowApplied =>
          /\ autoWindowContextRef' = currentContext'
          /\ displayedSlice' # NoSlice
          /\ <<vmin', vmax'>> = computePercentiles(SliceData(displayedSlice'), 1, 99)
     /\ (autoWindowContextRef = currentContext /\ currentContext' = currentContext)
          => UNCHANGED <<vmin, vmax, autoWindowContextRef>>
     /\ ~WindowApplied => UNCHANGED <<vmin, vmax>>]_vars

====
